---- MODULE Spec2Model ----
(***************************************************************************)
(* IPTV-Streamer: playback session and Picture-in-Picture lifecycle.       *)
(*                                                                         *)
(*   pipStateManager.js          the persisted PiP record (sessionStorage) *)
(*   PictureInPictureContext.jsx the PiP session manager                   *)
(*   pages/Player (part_003)     the primary player: resolve, engine,      *)
(*                               retry, live/VOD classification            *)
(*                                                                         *)
(* JavaScript values are tagged records [t, s, n]; a React state variable  *)
(* is a variable, and a value a hook closure captured at render time is a  *)
(* variable of its own where the code reads the captured value.            *)
(***************************************************************************)
EXTENDS Integers, Sequences, FiniteSets, TLC

(***************************************************************************)
(* JavaScript values                                                       *)
(***************************************************************************)
Undef == [t |-> "undef", s |-> "", n |-> 0]
JNull == [t |-> "null", s |-> "", n |-> 0]
Str(x) == [t |-> "str", s |-> x, n |-> 0]
Num(x) == [t |-> "num", s |-> "", n |-> x]

NaN == [t |-> "nan", s |-> "", n |-> 0]
Infinity == [t |-> "inf", s |-> "", n |-> 0]
\* isFinite(v), v > k and v <= k, v === Infinity for a number that may be NaN or Infinity
IsFinite(v) == v.t = "num"
Gt(v, k) == v.t = "inf" \/ (v.t = "num" /\ v.n > k)
Le(v, k) == v.t = "num" /\ v.n <= k

\* typeof v === 'string' / 'number'
IsString(v) == v.t = "str"
IsNumber(v) == v.t = "num"
\* JavaScript truthiness of a tagged value
Truthy(v) ==
  CASE v.t = "str" -> v.s # ""
    [] v.t = "num" -> v.n # 0
    [] OTHER -> FALSE
\* a || b
OrElse(a, b) == IF Truthy(a) THEN a ELSE b

(***************************************************************************)
(* pipStateManager.js: the persisted record                                *)
(***************************************************************************)
PIP_EXPIRY_TIME == 30 * 60 * 1000
PIP_VERSION == "1.0"
MinUrlLen == 5

\* What sessionStorage holds under PIP_STATE_KEY: nothing, a string that is
\* not JSON, or the parsed JSON value. A parsed value that is not an object
\* has kind "scalar" (a number, a string, true) or "null".
NoItem == [kind |-> "none"]
Garbage == [kind |-> "garbage"]
JsonNull == [kind |-> "null"]
JsonScalar == [kind |-> "scalar"]

\* channel as JSON gives it back: absent, a non-object, or an object
Chan(id, name, logo, group, channelId) ==
  [t |-> "obj", id |-> id, name |-> name, logo |-> logo, group |-> group,
   channelId |-> channelId]
NoChan == [Chan(Undef, Undef, Undef, Undef, Undef) EXCEPT !.t = "undef"]
ScalarChan == [Chan(Undef, Undef, Undef, Undef, Undef) EXCEPT !.t = "str"]
NullChan == [Chan(Undef, Undef, Undef, Undef, Undef) EXCEPT !.t = "null"]

NoOptions == [fromUserGesture |-> "undef", pendingPiP |-> "undef",
              needsActivation |-> "undef", wasMuted |-> "undef"]

StateObj(ch, url, opts, ts, ver) ==
  [kind |-> "object", channel |-> ch, streamUrl |-> url, options |-> opts,
   timestamp |-> ts, version |-> ver]

\* isValidPipState(state)
isValidPipState_NoName(state) ==
  /\ state.kind = "object"
  /\ state.channel.t = "obj"
  /\ IsString(state.streamUrl) /\ Len(state.streamUrl.s) > MinUrlLen
  /\ IsNumber(state.timestamp)

isValidPipState_Len5(state) ==
  /\ state.kind = "object"
  /\ state.channel.t = "obj"
  /\ IsString(state.channel.name)
  /\ IsString(state.streamUrl) /\ Len(state.streamUrl.s) >= MinUrlLen
  /\ IsNumber(state.timestamp)

isValidPipState(state) ==
  /\ state.kind \notin {"null", "none"}            \* if (!state) return false
  /\ state.kind = "object"                        \* state.channel of a scalar is undefined
  /\ state.channel.t = "obj"                      \* hasChannel
  /\ IsString(state.channel.name)                 \* hasName
  /\ IsString(state.streamUrl) /\ Len(state.streamUrl.s) > MinUrlLen
  /\ IsNumber(state.timestamp)                    \* hasTimestamp

\* Date.now() - state.timestamp > PIP_EXPIRY_TIME
isExpired_AtLimit(state, t) == t - state.timestamp.n >= PIP_EXPIRY_TIME

isExpired(state, t) == t - state.timestamp.n > PIP_EXPIRY_TIME

\* loadPipState(): what it returns and what it leaves in storage.
\* JSON.parse of a string that is not JSON throws; the catch removes the item.
loadPipState(item, t) ==
  IF item.kind = "none" THEN [result |-> NoItem, after |-> item]
  ELSE IF item.kind = "garbage" THEN [result |-> NoItem, after |-> NoItem]
  ELSE IF ~isValidPipState(item) THEN [result |-> NoItem, after |-> NoItem]
  ELSE IF isExpired(item, t) THEN [result |-> NoItem, after |-> NoItem]
  ELSE [result |-> item, after |-> item]

\* the cleanedChannel of savePipState
cleanChannel(channel) ==
  Chan(OrElse(channel.id, JNull),
       OrElse(channel.name, Str("Unknown Channel")),
       OrElse(channel.logo, JNull),
       OrElse(channel.group, JNull),
       OrElse(channel.channelId, OrElse(channel.id, JNull)))

\* a variant whose failed write leaves a truncated string behind
savePipState_LeavesPartial(item, channel, streamUrl, options, t, setItemThrows) ==
  IF channel.t # "obj" \/ ~Truthy(streamUrl) THEN [ok |-> FALSE, after |-> item]
  ELSE IF setItemThrows THEN [ok |-> FALSE, after |-> Garbage]
  ELSE [ok |-> TRUE,
        after |-> StateObj(cleanChannel(channel), streamUrl, options, Num(t), Str(PIP_VERSION))]

\* savePipState(channel, streamUrl, options): setItem may throw (quota), and
\* then the catch removes the item. Returns [ok, after].
savePipState(item, channel, streamUrl, options, t, setItemThrows) ==
  IF channel.t # "obj" \/ ~Truthy(streamUrl) THEN [ok |-> FALSE, after |-> item]
  ELSE IF setItemThrows THEN [ok |-> FALSE, after |-> NoItem]
  ELSE [ok |-> TRUE,
        after |-> StateObj(cleanChannel(channel), streamUrl, options, Num(t), Str(PIP_VERSION))]

\* clearPipState()
clearPipState(item) == NoItem

(***************************************************************************)
(* Bounds                                                                  *)
(***************************************************************************)
MaxTicks == 2
MaxLiveChecks == 7

(***************************************************************************)
(* State                                                                   *)
(***************************************************************************)
VARIABLES
  storage,      \* sessionStorage[PIP_STATE_KEY]
  now,          \* Date.now(), in ms
  ticks,        \* how often the clock has advanced
  lastCall,     \* the pipStateManager call just made: arguments and result
  \* the browser
  platform,     \* "hls": Hls.isSupported(); "native": canPlayType(mpegurl); "none"
  routes,       \* the id props the router hands to the player
  pipElement,   \* document.pictureInPictureElement: a video, or NoVideo
  exitReq,      \* who has a document.exitPictureInPicture() call in flight
  pipSupported, \* document.pictureInPictureEnabled and requestPictureInPicture exist
  \* Player: live/VOD classification
  videoRef,     \* videoRef.current: the player's <video>, or NoVideo when not mounted
  isLive,
  showTimeline,
  liveDetectionComplete,
  capLDC,       \* liveDetectionComplete as the installed handlers captured it
  isDragging,
  vDuration,    \* video.duration
  liveChecks,   \* video._liveChecks
  \* Player: session
  phase,        \* "initial" (not mounted yet), "mounted", "unmounted"
  id,           \* the id prop (decoded form), or NoRef
  opens,        \* the runs of the resolve-and-load effect, in order
  engines,      \* every Hls instance the player created, in order
  hlsRef,       \* hlsRef.current: an index of engines, or 0
  videoSrc,     \* what feeds the player's video: "none", "hls", "native"
  loading,
  error,
  channel,
  streamUrl,
  retryCount,
  streamLoaded,
  loadingOffTimer, \* a debouncedSetLoading(false) timer is pending
  onErrorLast,  \* the video's onError listener runs after setupHlsPlayer's
  urlCache,     \* the module's urlCache Map
  watchHistory, \* get('watchHistory'): channels, newest first
  qualities,       \* the ids of the quality choices after 'auto'
  currentQuality,
  preferredQuality, \* localStorage 'preferred-quality', or NoPreference
  manifestLevels,  \* how many levels the manifests of the stream server list
  metaFetch,       \* loadingMetadata and the fetchMetadata() call in flight
  \* PictureInPictureProvider
  pipVideo,        \* state: the video that reached the overlay, or NoVideo
  pipChannel,
  pipError,
  isSwitchingPip,
  currentStreamUrl,
  pipStatus,
  pipHlsRef,       \* pipHlsRef.current: an index of pips, or 0
  pipVideoRef,     \* pipVideoRef.current: a video, or NoVideo
  scope,           \* which memoized enterPiP / handleLeavePiP is current
  capPipVideo,     \* pipVideo as the current enterPiP captured it
  pips,            \* every off-screen video enterPiP created, with its engine
  waiters,         \* exitPipInternal calls awaiting document.exitPictureInPicture()
  leaveEvents,     \* videos with a leavepictureinpicture event queued
  leaveTimers,     \* pending 100 ms timers of handleLeavePiP, by scope
  switchTimers,    \* pending setIsSwitchingPip(false) timers
  restoreTimer,    \* the saved record the 1000 ms restore timer holds, or NoItem
  clicks           \* user clicks so far: on the PiP button, on the overlay

storeVars == <<storage, now, ticks, lastCall>>
browserVars == <<platform, routes, pipElement, exitReq, pipSupported>>
liveVars == <<isLive, showTimeline, liveDetectionComplete, capLDC, isDragging,
              vDuration, liveChecks>>
qualityVars == <<qualities, currentQuality, preferredQuality, manifestLevels>>
sessionVars == <<phase, id, opens, engines, hlsRef, videoSrc, loading, error, channel,
                 streamUrl, retryCount, streamLoaded, loadingOffTimer, onErrorLast, urlCache,
                 watchHistory, qualityVars, metaFetch>>
pipVars == <<pipVideo, pipChannel, pipError, isSwitchingPip, currentStreamUrl, pipStatus,
             pipHlsRef, pipVideoRef, scope, capPipVideo, pips, waiters, leaveEvents,
             leaveTimers, switchTimers, restoreTimer, clicks>>
vars == <<storeVars, browserVars, videoRef, liveVars, sessionVars, pipVars>>

\* loadingMetadata is false and no fetchMetadata() is in flight
NoFetch == [loadingMetadata |-> FALSE, pending |-> FALSE]

\* video elements
NoVideo == [el |-> "none", n |-> 0]
PlayerVideo == [el |-> "player", n |-> 0]

Now0 == 100 * 60 * 1000
Minute == 60 * 1000

NoCall == [op |-> "none"]
LoadCall(before, at, r) ==
  [op |-> "load", before |-> before, at |-> at, result |-> r.result, after |-> r.after]
SaveCall(ch, url, opts, at, r) ==
  [op |-> "save", channel |-> ch, streamUrl |-> url, options |-> opts, at |-> at,
   ok |-> r.ok, after |-> r.after]

\* Records a page can find in its session storage: written by this code, by
\* another version of it, or damaged.
StoredChans ==
  {NoChan, ScalarChan, NullChan,
   Chan(Str("c1"), Undef, JNull, JNull, JNull),
   Chan(Str("c1"), Num(7), JNull, JNull, JNull),
   Chan(Str("c1"), Str("One"), JNull, JNull, Str("c1"))}
StoredUrls ==
  {Undef, Num(123456), Str(""), Str("abcde"), Str("abcdef"), Str("http://h/a.m3u8")}
StoredStamps ==
  {Undef, Str("6000000"),
   Num(Now0 - 31 * Minute), Num(Now0 - PIP_EXPIRY_TIME - 1), Num(Now0 - PIP_EXPIRY_TIME),
   Num(Now0 - Minute), Num(Now0 + Minute)}
StoredVersions == {Undef, Str("0.9"), Str(PIP_VERSION)}
StoredItems ==
  {NoItem, Garbage, JsonNull, JsonScalar} \cup
  {StateObj(ch, url, NoOptions, ts, Str(PIP_VERSION)) :
     ch \in StoredChans, url \in StoredUrls, ts \in StoredStamps} \cup
  {StateObj(Chan(Str("c1"), Str("One"), JNull, JNull, Str("c1")), Str("http://h/a.m3u8"),
            NoOptions, ts, ver) :
     ts \in {Num(Now0 - Minute), Num(Now0 - 31 * Minute)}, ver \in StoredVersions}

\* Arguments callers pass to savePipState
SaveChans == {NoChan, Chan(Str("c1"), Str("One"), Undef, Undef, Undef),
              Chan(Undef, Undef, Str("l.png"), Undef, Str("x"))}
SaveUrls == {Undef, Str("http://h/a.m3u8"), Str("u.ts")}
SaveOptions == {[NoOptions EXCEPT !.pendingPiP = p] : p \in {"undef", "true"}}
TickSteps == {1, Minute, PIP_EXPIRY_TIME}

\* loadPipState() called
LoadPipState ==
  LET r == loadPipState(storage, now) IN
  /\ storage' = r.after
  /\ lastCall' = LoadCall(storage, now, r)
  /\ UNCHANGED <<now, ticks, browserVars, videoRef, liveVars, sessionVars, pipVars>>

\* savePipState(channel, streamUrl, options) called
SavePipState ==
  \E ch \in SaveChans, url \in SaveUrls, opts \in SaveOptions, throws \in BOOLEAN :
    LET r == savePipState(storage, ch, url, opts, now, throws) IN
    /\ storage' = r.after
    /\ lastCall' = SaveCall(ch, url, opts, now, r)
    /\ UNCHANGED <<now, ticks, browserVars, videoRef, liveVars, sessionVars, pipVars>>

\* clearPipState() called
ClearPipState ==
  /\ storage' = clearPipState(storage)
  /\ lastCall' = NoCall
  /\ UNCHANGED <<now, ticks, browserVars, videoRef, liveVars, sessionVars, pipVars>>

\* time passes
Tick ==
  /\ ticks < MaxTicks
  /\ \E d \in TickSteps : now' = now + d
  /\ ticks' = ticks + 1
  /\ lastCall' = NoCall
  /\ UNCHANGED <<storage, browserVars, videoRef, liveVars, sessionVars, pipVars>>

(***************************************************************************)
(* Player: live / VOD classification (the time-tracking effect)            *)
(***************************************************************************)
VodMinDuration == 120
EndWindow == 3
LiveChecksNeeded == 5
SeekableMin == 30
ReadyForCheck == 2
ReadyForUpdate == 3

Durations == {NaN, Num(0), Num(60), Num(200), Infinity}
Positions == {0, 10, 58, 199}
ReadyStates == {0, 2, 4}
SeekableWidths == {0, 10, 40}      \* 0: video.seekable.length = 0

\* The effect's dependencies are [isDragging, isLive, showTimeline]: its
\* handlers are re-created, and capture the current liveDetectionComplete,
\* only when one of them changes.
Recapture ==
  capLDC' = IF isDragging' # isDragging \/ isLive' # isLive \/ showTimeline' # showTimeline
            THEN liveDetectionComplete'
            ELSE capLDC

outsideLive == <<storeVars, browserVars, videoRef, sessionVars, pipVars>>

\* handleTimeUpdate: the live-detection part
handleTimeUpdate(rs) ==
  IF isDragging THEN UNCHANGED <<isLive, showTimeline, liveDetectionComplete>>
  ELSE IF ~capLDC /\ rs >= ReadyForUpdate
    THEN /\ liveDetectionComplete' = TRUE
         /\ IF vDuration = Infinity
              THEN isLive' = TRUE /\ showTimeline' = FALSE
            ELSE IF Gt(vDuration, 0)
              THEN isLive' = FALSE /\ showTimeline' = TRUE
            ELSE UNCHANGED <<isLive, showTimeline>>
    ELSE UNCHANGED <<isLive, showTimeline, liveDetectionComplete>>

\* handleDurationChange, with video.duration = d
handleDurationChange(d) ==
  IF ~Gt(d, 0)                               \* !duration || duration <= 0
    THEN UNCHANGED <<isLive, showTimeline, liveDetectionComplete>>
  ELSE IF d = Infinity
    THEN isLive' = TRUE /\ showTimeline' = FALSE /\ liveDetectionComplete' = TRUE
  ELSE IF Gt(d, VodMinDuration)
    THEN isLive' = FALSE /\ showTimeline' = TRUE /\ liveDetectionComplete' = TRUE
  ELSE UNCHANGED <<isLive, showTimeline, liveDetectionComplete>>

\* checkStreamType, with video.currentTime = ct, readyState = rs and a
\* seekable range of width sw
checkStreamType(ct, rs, sw) ==
  IF rs < ReadyForCheck \/ ct <= 0 \/ ~(IsFinite(vDuration) /\ vDuration.n > 0)
    THEN UNCHANGED <<isLive, showTimeline, liveChecks>>
  ELSE IF vDuration.n > VodMinDuration
    THEN /\ IF isLive THEN isLive' = FALSE /\ showTimeline' = TRUE
                      ELSE UNCHANGED <<isLive, showTimeline>>
         /\ UNCHANGED liveChecks
  ELSE IF vDuration.n - ct < EndWindow
    THEN /\ liveChecks' = liveChecks + 1
         /\ IF liveChecks > LiveChecksNeeded
              THEN isLive' = TRUE /\ showTimeline' = FALSE
              ELSE UNCHANGED <<isLive, showTimeline>>
  ELSE /\ liveChecks' = 0
       /\ IF ~showTimeline /\ sw > SeekableMin
            THEN showTimeline' = TRUE /\ isLive' = FALSE
            ELSE UNCHANGED <<isLive, showTimeline>>

\* a position the video can be at
PositionOk(ct) == IsFinite(vDuration) => ct <= vDuration.n

\* 'timeupdate' or 'progress' on the player's video
TimeUpdate ==
  /\ videoRef # NoVideo
  /\ \E rs \in ReadyStates : handleTimeUpdate(rs)
  /\ UNCHANGED <<isDragging, vDuration, liveChecks>>
  /\ Recapture
  /\ UNCHANGED outsideLive

\* the video's duration changes: 'durationchange'
DurationChange ==
  /\ videoRef # NoVideo
  /\ \E d \in Durations \ {vDuration} :
       /\ vDuration' = d
       /\ handleDurationChange(d)
  /\ UNCHANGED <<isDragging, liveChecks>>
  /\ Recapture
  /\ UNCHANGED outsideLive

\* 'loadedmetadata' runs handleDurationChange with the current duration
LoadedMetadata ==
  /\ videoRef # NoVideo
  /\ handleDurationChange(vDuration)
  /\ UNCHANGED <<isDragging, vDuration, liveChecks>>
  /\ Recapture
  /\ UNCHANGED outsideLive

\* the 1-second interval
\* one run of the 1 s interval with the sample it reads from the video
CheckStreamTypeWith(ct, rs, sw) ==
  /\ videoRef # NoVideo
  /\ liveChecks < MaxLiveChecks
  /\ PositionOk(ct)
  /\ checkStreamType(ct, rs, sw)
  /\ UNCHANGED <<liveDetectionComplete, isDragging, vDuration>>
  /\ Recapture
  /\ UNCHANGED outsideLive

CheckStreamType ==
  \E ct \in Positions, rs \in ReadyStates, sw \in SeekableWidths :
    CheckStreamTypeWith(ct, rs, sw)

\* handleProgressDragStart (the bar is rendered when showTimeline) and mouseup
DragStart ==
  /\ videoRef # NoVideo /\ showTimeline /\ ~isLive /\ ~isDragging
  /\ isDragging' = TRUE
  /\ UNCHANGED <<isLive, showTimeline, liveDetectionComplete, vDuration, liveChecks>>
  /\ Recapture
  /\ UNCHANGED outsideLive

DragEnd ==
  /\ isDragging
  /\ isDragging' = FALSE
  /\ UNCHANGED <<isLive, showTimeline, liveDetectionComplete, vDuration, liveChecks>>
  /\ Recapture
  /\ UNCHANGED outsideLive

(***************************************************************************)
(* Player: resolving a channel reference                                   *)
(***************************************************************************)
MAX_RETRIES == 3
HistoryLimit == 100
MaxOpens == 2

NoRef == <<>>

\* A reference is a sequence of tokens: new URL() accepts it when it starts
\* with a scheme token; the pathname runs up to the first query token.
SchemeTokens == {"http://h", "http://api", "channelId:"}
QueryTokens == {"?f=x"}
StreamExts == {".m3u8", ".m3u", ".ts"}
toLowerCase(tok) ==
  CASE tok = ".M3U8" -> ".m3u8"
    [] tok = ".TS" -> ".ts"
    [] tok = "BBC" -> "bbc"
    [] tok = "BBC One" -> "bbc one"
    [] tok = "CNN" -> "cnn"
    [] OTHER -> tok
decodeToken(tok) ==
  CASE tok = "%3Ff%3Dx" -> "?f=x"
    [] OTHER -> tok

\* decodeURIComponent: a lone "%" is a URIError
decodeURIComponent(enc) ==
  IF \E i \in 1..Len(enc) : enc[i] = "%"
    THEN [ok |-> FALSE, value |-> NoRef]
    ELSE [ok |-> TRUE, value |-> [i \in 1..Len(enc) |-> decodeToken(enc[i])]]

ParsesAsUrl(ref) == ref # <<>> /\ Head(ref) \in SchemeTokens

RECURSIVE UpToQuery(_)
UpToQuery(s) ==
  IF s = <<>> \/ Head(s) \in QueryTokens THEN <<>>
  ELSE <<Head(s)>> \o UpToQuery(Tail(s))
pathname(ref) == UpToQuery(Tail(ref))
endsWith(path, ext) == path # <<>> /\ toLowerCase(path[Len(path)]) = ext

\* urlCache values: a boolean (isDirectStreamUrl) or an id (extractChannelId)
CacheBool(b) == [t |-> "bool", b |-> b, s |-> NoRef]
CacheId(r) == [t |-> "str", b |-> FALSE, s |-> r]
CacheTruthy(v) == IF v.t = "bool" THEN v.b ELSE v.s # <<>>
CachePut(cache, k, v) == [x \in DOMAIN cache \cup {k} |-> IF x = k THEN v ELSE cache[x]]
EmptyCache == [x \in {} |-> CacheBool(FALSE)]

isDirectStreamUrl_M3u8Only(url, cache) ==
  IF url = <<>> THEN [result |-> CacheBool(FALSE), cache |-> cache]
  ELSE IF url \in DOMAIN cache THEN [result |-> cache[url], cache |-> cache]
  ELSE LET r == CacheBool(ParsesAsUrl(url) /\ endsWith(pathname(url), ".m3u8"))
       IN [result |-> r, cache |-> CachePut(cache, url, r)]

isDirectStreamUrl(url, cache) ==
  IF url = <<>> THEN [result |-> CacheBool(FALSE), cache |-> cache]
  ELSE IF url \in DOMAIN cache THEN [result |-> cache[url], cache |-> cache]
  ELSE LET r == CacheBool(ParsesAsUrl(url) /\
                          \E ext \in StreamExts : endsWith(pathname(url), ext))
       IN [result |-> r, cache |-> CachePut(cache, url, r)]

extractChannelId(ref, cache) ==
  LET cacheKey == <<"channelId:">> \o ref IN
  IF ref = <<>> THEN [result |-> CacheId(NoRef), cache |-> cache]
  ELSE IF cacheKey \in DOMAIN cache THEN [result |-> cache[cacheKey], cache |-> cache]
  ELSE [result |-> CacheId(ref), cache |-> CachePut(cache, cacheKey, CacheId(ref))]

\* The id props the router hands to the player
DirectUrl == <<"http://h", "/a", ".m3u8">>
UpperTsUrl == <<"http://h", "/b", ".TS">>
QueryUrlEncoded == <<"http://h", "/play", "%3Ff%3Dx", ".m3u8">>
ChannelName == <<"bbc">>
KeyLikeRef == <<"channelId:", "bbc">>
NameWithExt == <<"bbc", ".m3u8">>
KeyLikeDirect == <<"channelId:", "bbc", ".m3u8">>
MalformedId == <<"%">>
Ids ==
  {DirectUrl, UpperTsUrl, QueryUrlEncoded, ChannelName, KeyLikeRef, NameWithExt,
   KeyLikeDirect, MalformedId}

\* What apiClient.getChannelDetails and apiClient.findChannel resolve with:
\* null, or the directory's channel, with a url when it lists a stream for
\* it. Both catch their own failures and resolve with null.
ApiUrl == <<"http://api", "/s", ".m3u8">>
NoData == [name |-> "", url |-> NoRef, id |-> ""]
ApiChannel(hasUrl) ==
  [name |-> "Api One", url |-> IF hasUrl THEN ApiUrl ELSE NoRef, id |-> "api1"]
ApiAnswers == {"null", "nourl", "url"}
ApiData(answer) ==
  CASE answer = "url" -> ApiChannel(TRUE)
    [] answer = "nourl" -> ApiChannel(FALSE)
    [] OTHER -> NoData

\* error messages: NoError is '', Msg(m) a fixed text, Msg2(m, r) a text
\* followed by a reason
NoError == <<>>
Msg(m) == <<m>>
Msg2(m, reason) == <<m, reason>>
NoChannel == [id |-> NoRef, name |-> "", channelId |-> ""]

\* the reason the ERROR handler gives for a server that cannot be reached
ServerUnreachable ==
  "Stream unavailable: The server couldn't be reached. This channel may no longer be active."

\* reasons that name a DNS failure: they include 'unavailable', 'status 0',
\* 'ERR_NAME_NOT_RESOLVED' or 'could not be reached'
isDNSError(reason) == reason = ServerUnreachable

\* handleInvalidStream(reason), as memoized for the id prop forId: the user
\* message it sets
handleInvalidStream(reason, forId) ==
  LET dec == decodeURIComponent(forId) IN
  IF dec.ok /\ ParsesAsUrl(dec.value)
    THEN IF isDNSError(reason) THEN Msg("Stream server not found")
         ELSE Msg("Stream failed to load")
    ELSE Msg2("Stream failed to load: ", reason)

(***************************************************************************)
(* Player: the resolve-and-load effect, loadChannelDetails, setupHlsPlayer *)
(***************************************************************************)
outsideSession == <<storeVars, liveVars, pipVars>>

\* the onError listener of the playback-state effect is re-attached, behind
\* the listeners setupHlsPlayer added, whenever error changes
Resubscribe(nativeSetup) ==
  onErrorLast' = IF platform # "native" \/ nativeSetup THEN FALSE
                 ELSE IF error' # error THEN TRUE
                 ELSE onErrorLast

NewOpen(forId) ==
  [id |-> forId, ref |-> NoRef, isMounted |-> TRUE, pc |-> "done", channelData |-> NoData,
   url |-> NoRef, apiCalls |-> 0, timer |-> "none", capLoading |-> loading,
   capError |-> error, history |-> <<>>]

\* a run whose timer is not pending: the values its timer callback captured
\* are no longer read
TimerOff(o) == [o EXCEPT !.timer = "off", !.capLoading = FALSE, !.capError = NoError]

\* resolveAndLoadStream from `if (isMounted)` on: setStreamUrl, then
\* loadChannelDetails up to its first await, then the 25 s timer
Continue(o, url, data) ==
  IF o.isMounted
    THEN [o EXCEPT !.url = url, !.channelData = data, !.pc = "getHistory", !.timer = "armed"]
    ELSE TimerOff([o EXCEPT !.url = url, !.channelData = data, !.pc = "done"])

\* the effect body for the id prop forId: resolveAndLoadStream up to its
\* first await; prev is the list of earlier runs after the effect's cleanup
RunEffect(forId, prev) ==
  LET dec == decodeURIComponent(forId)
      o == NewOpen(forId)
      d == isDirectStreamUrl(dec.value, urlCache)
      c == extractChannelId(dec.value, d.cache)
  IN IF ~dec.ok
       THEN /\ opens' = Append(prev, TimerOff(o))
            /\ error' = Msg("Error loading stream: ")
            /\ loading' = FALSE
            /\ UNCHANGED <<streamUrl, urlCache>>
     ELSE IF ~CacheTruthy(d.result) /\ CacheTruthy(c.result)
       THEN /\ opens' = Append(prev, [o EXCEPT !.ref = dec.value, !.pc = "details",
                                                !.apiCalls = 1])
            /\ error' = NoError
            /\ loading' = TRUE
            /\ urlCache' = c.cache
            /\ UNCHANGED streamUrl
     ELSE /\ opens' = Append(prev, Continue([o EXCEPT !.ref = dec.value], dec.value, NoData))
          /\ error' = NoError
          /\ loading' = TRUE
          /\ streamUrl' = dec.value
          /\ urlCache' = IF CacheTruthy(d.result) THEN d.cache ELSE c.cache

\* the effect's cleanup: isMounted = false, clearTimeout(timeoutId)
CleanedUp(os) ==
  IF os = <<>> THEN os
  ELSE [os EXCEPT ![Len(os)] =
          IF os[Len(os)].timer = "armed"
            THEN TimerOff([os[Len(os)] EXCEPT !.isMounted = FALSE])
            ELSE [os[Len(os)] EXCEPT !.isMounted = FALSE]]

\* the initializer of the currentQuality state:
\* localStorage.getItem('preferred-quality') || 'auto'
NoPreference == ""
InitialQuality(stored) == IF stored = NoPreference THEN "auto" ELSE stored

\* the route shows the player for an id
PlayerMount ==
  /\ phase = "initial"
  /\ \E i \in routes :
       /\ id' = i
       /\ RunEffect(i, opens)
  /\ phase' = "mounted"
  /\ videoRef' = PlayerVideo
  /\ currentQuality' = InitialQuality(preferredQuality)
  /\ Resubscribe(FALSE)
  /\ UNCHANGED <<engines, hlsRef, videoSrc, channel, retryCount, streamLoaded,
                 loadingOffTimer, watchHistory, browserVars, qualities, preferredQuality,
                 manifestLevels, metaFetch, outsideSession>>

\* the id prop changes while the player stays mounted
ChangeId ==
  /\ phase = "mounted"
  /\ Len(opens) < MaxOpens
  /\ \E i \in routes \ {id} :
       /\ id' = i
       /\ RunEffect(i, CleanedUp(opens))
  /\ Resubscribe(FALSE)
  /\ UNCHANGED <<phase, videoRef, engines, hlsRef, videoSrc, channel, retryCount,
                 streamLoaded, loadingOffTimer, watchHistory, browserVars, qualityVars,
                 metaFetch, outsideSession>>

\* a variant that loads the reference itself when the directory had no URL
AfterLookup_LoadAnyway(k, data) ==
  LET url == IF data.url # NoRef THEN data.url ELSE opens[k].ref IN
  /\ opens' = [opens EXCEPT ![k] = Continue(@, url, data)]
  /\ IF opens[k].isMounted
       THEN /\ channel' = [id |-> url,
                           name |-> IF data.name # "" THEN data.name
                                    ELSE "Unknown Channel",
                           channelId |-> data.id]
            /\ streamUrl' = url
       ELSE UNCHANGED <<channel, streamUrl>>
  /\ UNCHANGED <<error, loading>>

\* after the lookups: channelData?.url decides
AfterLookup(k, data) ==
  IF data.url # NoRef
    THEN /\ opens' = [opens EXCEPT ![k] = Continue(@, data.url, data)]
         /\ IF opens[k].isMounted
              THEN /\ channel' = [id |-> data.url,
                                  name |-> IF data.name # "" THEN data.name
                                           ELSE "Unknown Channel",
                                  channelId |-> data.id]
                   /\ streamUrl' = data.url
              ELSE UNCHANGED <<channel, streamUrl>>
         /\ UNCHANGED <<error, loading>>
    ELSE /\ opens' = [opens EXCEPT ![k] = TimerOff([@ EXCEPT !.pc = "done",
                                                              !.channelData = data])]
         /\ error' = Msg("Channel found but no stream URL available")
         /\ loading' = FALSE
         /\ UNCHANGED <<channel, streamUrl>>

\* apiClient.getChannelDetails(channelId) settles
GetChannelDetailsDone ==
  /\ \E k \in 1..Len(opens), answer \in ApiAnswers :
       /\ opens[k].pc = "details"
       /\ IF answer = "null"
            THEN /\ opens' = [opens EXCEPT ![k] = [@ EXCEPT !.pc = "find",
                                                            !.apiCalls = @ + 1]]
                 /\ UNCHANGED <<error, loading, channel, streamUrl>>
          ELSE AfterLookup(k, ApiData(answer))
  /\ Resubscribe(FALSE)
  /\ UNCHANGED <<phase, id, videoRef, engines, hlsRef, videoSrc, retryCount, streamLoaded,
                 loadingOffTimer, urlCache, watchHistory, browserVars, qualityVars,
                 metaFetch, outsideSession>>

\* apiClient.findChannel(channelId) settles
FindChannelDone ==
  /\ \E k \in 1..Len(opens), answer \in ApiAnswers :
       /\ opens[k].pc = "find"
       /\ AfterLookup(k, ApiData(answer))
  /\ Resubscribe(FALSE)
  /\ UNCHANGED <<phase, id, videoRef, engines, hlsRef, videoSrc, retryCount, streamLoaded,
                 loadingOffTimer, urlCache, watchHistory, browserVars, qualityVars,
                 metaFetch, outsideSession>>

\* loadChannelDetails: the name it gives the channel when the directory had none
NameFromUrl(url) ==
  IF ~ParsesAsUrl(url) THEN "Channel N"
  ELSE IF pathname(url) = <<>> THEN ""
  ELSE "From Url"

FindInHistory(history, url) ==
  IF \E i \in 1..Len(history) : history[i].id = url
    THEN history[CHOOSE i \in 1..Len(history) : history[i].id = url]
    ELSE NoChannel

ChannelFor(url, apiData, history) ==
  LET h == FindInHistory(history, url)
      known == IF apiData.name # "" THEN apiData.name ELSE h.name
  IN [id |-> url,
      name |-> IF known = "" \/ known = "Unknown Channel" THEN NameFromUrl(url) ELSE known,
      channelId |-> IF apiData.id # "" THEN apiData.id ELSE h.channelId]

RECURSIVE Without(_, _)
Without(history, url) ==
  IF history = <<>> THEN <<>>
  ELSE IF Head(history).id = url THEN Without(Tail(history), url)
  ELSE <<Head(history)>> \o Without(Tail(history), url)

UpdatedHistory(history, ch) ==
  LET all == <<ch>> \o Without(history, ch.id)
  IN SubSeq(all, 1, IF Len(all) < HistoryLimit THEN Len(all) ELSE HistoryLimit)

\* the catch of loadChannelDetails
LoadFailed(k) ==
  /\ opens' = [opens EXCEPT ![k] = [@ EXCEPT !.pc = "done", !.history = <<>>]]
  /\ error' = Msg("Error loading stream: ")
  /\ loading' = FALSE

\* get('watchHistory') settles; a failed read yields undefined, read as []
ReadHistory ==
  /\ \E k \in 1..Len(opens), readFails \in BOOLEAN :
       /\ opens[k].pc = "getHistory"
       /\ opens' = [opens EXCEPT ![k] = [@ EXCEPT !.pc = "getFavorites",
                                                  !.history = IF readFails THEN <<>>
                                                              ELSE watchHistory]]
  /\ UNCHANGED <<phase, id, videoRef, engines, hlsRef, videoSrc, loading, error, channel,
                 streamUrl, retryCount, streamLoaded, loadingOffTimer, onErrorLast,
                 urlCache, watchHistory, browserVars, qualityVars, metaFetch, outsideSession>>

\* get('favorites') settles: setChannel, then set('watchHistory', ...) starts;
\* a failed write leaves the store as it is
ReadFavorites ==
  /\ \E k \in 1..Len(opens), writeFails \in BOOLEAN :
       LET o == opens[k]
           ch == ChannelFor(o.url, o.channelData, o.history)
       IN /\ o.pc = "getFavorites"
          /\ channel' = ch
          /\ watchHistory' = IF writeFails THEN watchHistory
                             ELSE UpdatedHistory(o.history, ch)
          /\ opens' = [opens EXCEPT ![k] = [@ EXCEPT !.pc = "setHistory",
                                                     !.history = <<>>]]
  /\ UNCHANGED <<phase, id, videoRef, engines, hlsRef, videoSrc, loading, error,
                 streamUrl, retryCount, streamLoaded, loadingOffTimer, onErrorLast,
                 urlCache, browserVars, qualityVars, metaFetch, outsideSession>>

\* the metadata effect passes its guard: fetchMetadata() sets loadingMetadata
\* and keeps the channel and the decoded id of this render; the change of
\* loadingMetadata re-runs the effect, whose cleanup clears isMounted at once
FetchMetadataStarts ==
  /\ phase = "mounted"
  /\ id # NoRef /\ channel # NoChannel
  /\ ~metaFetch.loadingMetadata
  /\ decodeURIComponent(id).ok
  /\ metaFetch' = [loadingMetadata |-> TRUE, pending |-> TRUE, channel |-> channel,
                   streamUrl |-> decodeURIComponent(id).value]
  /\ UNCHANGED <<phase, id, videoRef, engines, hlsRef, videoSrc, loading, error, channel,
                 streamUrl, retryCount, streamLoaded, loadingOffTimer, onErrorLast,
                 urlCache, opens, watchHistory, browserVars, qualityVars, outsideSession>>

\* the history entries of the fetched id get the merged channel
EnrichedHistory(history, forUrl, updatedChannel) ==
  [i \in 1..Len(history) |->
     IF history[i].id = forUrl THEN updatedChannel ELSE history[i]]

\* the lookups of fetchMetadata() settle; with metadata found the merged
\* channel goes to the watch history and, through setChannel, over the
\* channel of the state; isMounted is false, so loadingMetadata stays set
FetchMetadataDone ==
  /\ metaFetch.loadingMetadata /\ metaFetch.pending
  /\ metaFetch' = [loadingMetadata |-> TRUE, pending |-> FALSE]
  /\ \E found \in BOOLEAN, writeFails \in BOOLEAN :
       LET meta == ApiChannel(TRUE)
           captured == metaFetch.channel
           updatedChannel == [captured EXCEPT
                                !.name = IF captured.name # "" THEN captured.name
                                         ELSE meta.name]
       IN IF found
            THEN /\ watchHistory' = IF writeFails THEN watchHistory
                                    ELSE EnrichedHistory(watchHistory, metaFetch.streamUrl,
                                                         updatedChannel)
                 /\ channel' = IF phase = "mounted" THEN updatedChannel ELSE channel
            ELSE /\ ~writeFails
                 /\ UNCHANGED <<watchHistory, channel>>
  /\ UNCHANGED <<phase, id, videoRef, engines, hlsRef, videoSrc, loading, error,
                 streamUrl, retryCount, streamLoaded, loadingOffTimer, onErrorLast,
                 urlCache, opens, browserVars, qualityVars, outsideSession>>

\* a stored entry that history.find or favorites.find cannot read makes
\* loadChannelDetails throw into its catch
LoadThrows ==
  /\ \E k \in 1..Len(opens) :
       /\ opens[k].pc \in {"getHistory", "getFavorites"}
       /\ LoadFailed(k)
  /\ Resubscribe(FALSE)
  /\ UNCHANGED <<phase, id, videoRef, engines, hlsRef, videoSrc, channel, streamUrl,
                 retryCount, streamLoaded, loadingOffTimer, urlCache, watchHistory,
                 browserVars, qualityVars, metaFetch, outsideSession>>

Destroyed(es, ref) ==
  IF ref = 0 THEN es ELSE [es EXCEPT ![ref] = [@ EXCEPT !.state = "destroyed"]]

\* recoveries: the calls of recoverMediaError(); currentLevel: -1 is auto
NewEngine(url, k) ==
  [url |-> url, state |-> "live", parsed |-> FALSE, open |-> k, recoveries |-> 0,
   currentLevel |-> -1]

\* the id prop of the first render: setupHlsPlayer is always the first
\* render's, and so is the handleInvalidStream it calls
FirstId == opens[1].id

\* a variant that keeps the previous engine alive
setupHlsPlayer_KeepOld(url, k, initThrows) ==
  IF url = NoRef \/ videoRef = NoVideo
    THEN /\ error' = Msg("Invalid stream URL or video element not ready")
         /\ loading' = FALSE
         /\ UNCHANGED <<engines, hlsRef, videoSrc>>
  ELSE IF platform = "hls"
    THEN /\ engines' = Append(engines, NewEngine(url, k))
         /\ hlsRef' = Len(engines) + 1
         /\ videoSrc' = "hls"
         /\ IF initThrows
              THEN /\ error' = handleInvalidStream("Failed to initialize player", FirstId)
                   /\ loading' = FALSE
              ELSE UNCHANGED <<error, loading>>
  ELSE IF platform = "native"
    THEN /\ engines' = engines
         /\ hlsRef' = 0
         /\ videoSrc' = "native"
         /\ UNCHANGED <<error, loading>>
  ELSE /\ engines' = engines
       /\ hlsRef' = 0
       /\ error' = Msg("Your browser doesn't support HLS playback")
       /\ loading' = FALSE
       /\ UNCHANGED videoSrc

\* setupHlsPlayer(streamUrl), called by run k of the effect
setupHlsPlayer(url, k, initThrows) ==
  IF url = NoRef \/ videoRef = NoVideo
    THEN /\ error' = Msg("Invalid stream URL or video element not ready")
         /\ loading' = FALSE
         /\ UNCHANGED <<engines, hlsRef, videoSrc>>
  ELSE IF platform = "hls"
    THEN /\ engines' = Append(Destroyed(engines, hlsRef), NewEngine(url, k))
         /\ hlsRef' = Len(engines) + 1
         /\ videoSrc' = "hls"
         /\ IF initThrows
              THEN /\ error' = handleInvalidStream("Failed to initialize player", FirstId)
                   /\ loading' = FALSE
              ELSE UNCHANGED <<error, loading>>
  ELSE IF platform = "native"
    THEN /\ engines' = Destroyed(engines, hlsRef)
         /\ hlsRef' = 0
         /\ videoSrc' = "native"
         /\ UNCHANGED <<error, loading>>
  ELSE /\ engines' = Destroyed(engines, hlsRef)
       /\ hlsRef' = 0
       /\ error' = Msg("Your browser doesn't support HLS playback")
       /\ loading' = FALSE
       /\ UNCHANGED videoSrc

\* set('watchHistory', ...) settles: setupHlsPlayer runs
WriteHistoryDone ==
  /\ \E k \in 1..Len(opens), initThrows \in BOOLEAN :
       /\ opens[k].pc = "setHistory"
       /\ opens' = [opens EXCEPT ![k] = [@ EXCEPT !.pc = "done"]]
       /\ setupHlsPlayer(opens[k].url, k, initThrows)
  /\ Resubscribe(videoRef # NoVideo)
  /\ UNCHANGED <<phase, id, videoRef, channel, streamUrl, retryCount, streamLoaded,
                 loadingOffTimer, urlCache, watchHistory, browserVars, qualityVars,
                 metaFetch, outsideSession>>

(***************************************************************************)
(* Player: engine and video events, the watchdog, retry, unmount           *)
(***************************************************************************)
HasLiveEngine == hlsRef # 0 /\ engines[hlsRef].state = "live"

\* index.toString() of a level index
LevelId(index) == CASE index = 0 -> "0" [] index = 1 -> "1" [] index = 2 -> "2"

\* data.levels.map((level, index) => ({id: index.toString(), ...})): the ids
QualityLevels(n) == [i \in 1..n |-> LevelId(i - 1)]

\* Hls.Events.MANIFEST_PARSED on the player's engine
ManifestParsed ==
  /\ HasLiveEngine
  /\ ~engines[hlsRef].parsed
  /\ engines' = [engines EXCEPT ![hlsRef] = [@ EXCEPT !.parsed = TRUE]]
  /\ streamLoaded' = TRUE
  /\ loading' = FALSE
  /\ error' = NoError
  /\ qualities' = IF manifestLevels > 1 THEN QualityLevels(manifestLevels) ELSE qualities
  /\ Resubscribe(FALSE)
  /\ UNCHANGED <<phase, id, videoRef, opens, hlsRef, videoSrc, channel, streamUrl,
                 retryCount, loadingOffTimer, urlCache, watchHistory, browserVars,
                 currentQuality, preferredQuality, manifestLevels, metaFetch, outsideSession>>

ErrorTypes == {"networkError", "mediaError", "otherError"}
\* cors: the response has code 0, or its text or the error's message names
\* CORS; manifest: details is manifestLoadError; unreachable: networkDetails
\* has status 0 or an empty statusText, or the response text has
\* ERR_NAME_NOT_RESOLVED; internal: an internalException whose message the
\* handler recovers from; throws: the recovery call throws
ErrorEvents ==
  {d \in [type : ErrorTypes, fatal : BOOLEAN, cors : BOOLEAN, manifest : BOOLEAN,
           unreachable : BOOLEAN, internal : BOOLEAN, throws : BOOLEAN] :
     /\ d.internal => d.type = "otherError"
     /\ d.manifest => d.type = "networkError"
     /\ d.unreachable => d.type = "networkError"}

isCorsError(data) == data.cors \/ (data.type = "networkError" /\ data.manifest)

\* retryCount as the first render had it
FirstRetryCount == 0
MaxRecoveries == 2

\* hls.recoverMediaError() is called on the engine
Recovered(es, ref) == [es EXCEPT ![ref] = [@ EXCEPT !.recoveries = @ + 1]]

\* the Hls.Events.ERROR handler; it reads streamLoaded, loading and
\* retryCount as the first render had them: false, true, 0
onHlsError(data) ==
  IF isCorsError(data)
    THEN /\ error' = Msg("Stream access restricted (CORS policy)")
         /\ loading' = FALSE
         /\ UNCHANGED engines
  ELSE IF data.type = "otherError" /\ data.internal
    THEN /\ IF data.throws
              THEN /\ error' = handleInvalidStream("Failed to recover from internal exception",
                                                   FirstId)
                   /\ loading' = FALSE
              ELSE UNCHANGED <<error, loading>>
         /\ UNCHANGED engines
  ELSE IF ~data.fatal THEN UNCHANGED <<error, loading, engines>>
  ELSE IF data.type = "networkError"
    THEN /\ IF ~engines[hlsRef].parsed
              THEN UNCHANGED <<error, loading>>
            ELSE IF data.manifest /\ FirstRetryCount > 0 /\ data.unreachable
              THEN /\ error' = handleInvalidStream(ServerUnreachable, FirstId)
                   /\ loading' = FALSE
            ELSE IF data.throws
              THEN /\ error' = handleInvalidStream(
                                 "Failed to restart stream after network error", FirstId)
                   /\ loading' = FALSE
            ELSE UNCHANGED <<error, loading>>
         /\ UNCHANGED engines
  ELSE IF data.type = "mediaError"
    THEN /\ engines' = Recovered(engines, hlsRef)
         /\ IF data.throws
              THEN /\ error' = handleInvalidStream("Failed to recover from media error",
                                                   FirstId)
                   /\ loading' = FALSE
              ELSE UNCHANGED <<error, loading>>
  ELSE /\ error' = handleInvalidStream("Fatal streaming error", FirstId)
       /\ loading' = FALSE
       /\ UNCHANGED engines

\* Hls.Events.ERROR with the event data on the player's engine
EngineErrorWith(data) ==
  /\ HasLiveEngine
  /\ (data.type = "mediaError" /\ data.fatal /\ ~isCorsError(data)) =>
       engines[hlsRef].recoveries < MaxRecoveries
  /\ onHlsError(data)
  /\ Resubscribe(FALSE)
  /\ UNCHANGED <<phase, id, videoRef, opens, hlsRef, videoSrc, channel, streamUrl,
                 retryCount, streamLoaded, loadingOffTimer, urlCache, watchHistory,
                 browserVars, qualityVars, metaFetch, outsideSession>>

\* the events on which the handler calls hls.recoverMediaError()
CallsRecovery(data) ==
  /\ data.type = "mediaError"
  /\ data.fatal
  /\ ~isCorsError(data)

\* Hls.Events.ERROR on the player's engine: every event but a fatal media
\* error, and a fatal media error
EngineError == \E data \in ErrorEvents : ~CallsRecovery(data) /\ EngineErrorWith(data)
MediaError == \E data \in ErrorEvents : CallsRecovery(data) /\ EngineErrorWith(data)

\* 'loadedmetadata' on a natively fed video: the once-listener of
\* setupHlsPlayer and the handlers every video has
NativeLoaded ==
  /\ videoRef # NoVideo
  /\ videoSrc = "native"
  /\ videoSrc' = "nativeReady"
  /\ streamLoaded' = TRUE
  /\ loading' = FALSE
  /\ error' = NoError
  /\ loadingOffTimer' = TRUE
  /\ Resubscribe(FALSE)
  /\ UNCHANGED <<phase, id, videoRef, opens, engines, hlsRef, channel, streamUrl,
                 retryCount, urlCache, watchHistory, browserVars, qualityVars,
                 metaFetch, outsideSession>>

VideoHasMedia ==
  \/ videoSrc = "hls" /\ HasLiveEngine /\ engines[hlsRef].parsed
  \/ videoSrc = "nativeReady"

\* 'canplay', 'playing', 'loadeddata' or 'loadedmetadata' on the video
VideoReady ==
  /\ videoRef # NoVideo
  /\ VideoHasMedia
  /\ loadingOffTimer' = TRUE
  /\ streamLoaded' = TRUE
  /\ error' = NoError
  /\ Resubscribe(FALSE)
  /\ UNCHANGED <<phase, id, videoRef, opens, engines, hlsRef, videoSrc, loading, channel,
                 streamUrl, retryCount, urlCache, watchHistory, browserVars,
                 qualityVars, metaFetch, outsideSession>>

\* the 100 ms timer of debouncedSetLoading(false)
LoadingOff ==
  /\ loadingOffTimer
  /\ loadingOffTimer' = FALSE
  /\ loading' = FALSE
  /\ UNCHANGED <<phase, id, videoRef, opens, engines, hlsRef, videoSrc, error, channel,
                 streamUrl, retryCount, streamLoaded, onErrorLast, urlCache, watchHistory,
                 browserVars, qualityVars, metaFetch, outsideSession>>

\* 'error' on the video: onError of the playback-state effect and, on a
\* natively fed video, handleError of setupHlsPlayer; the listener that runs
\* last decides
VideoError ==
  /\ videoRef # NoVideo
  /\ videoSrc # "none"
  /\ IF videoSrc = "hls"
       THEN /\ error' = IF error = NoError
                          THEN Msg("Video playback error. The stream may be unavailable.")
                          ELSE error
            /\ UNCHANGED loading
       ELSE /\ error' = IF onErrorLast /\ error = NoError
                          THEN Msg("Video playback error. The stream may be unavailable.")
                          ELSE handleInvalidStream("Safari cannot load this stream", FirstId)
            /\ loading' = FALSE
  /\ Resubscribe(FALSE)
  /\ UNCHANGED <<phase, id, videoRef, opens, engines, hlsRef, videoSrc, channel, streamUrl,
                 retryCount, streamLoaded, loadingOffTimer, urlCache, watchHistory,
                 browserVars, qualityVars, metaFetch, outsideSession>>

\* the 25 s timer of run k; loading and error are the values of the render
\* the effect ran in
WatchdogFires ==
  /\ \E k \in 1..Len(opens) :
       /\ opens[k].timer = "armed"
       /\ opens' = [opens EXCEPT ![k] = TimerOff(@)]
       /\ IF opens[k].isMounted /\ opens[k].capLoading /\ opens[k].capError = NoError
            THEN /\ error' = handleInvalidStream("Stream timed out after 25 seconds",
                                                 opens[k].id)
                 /\ loading' = FALSE
            ELSE UNCHANGED <<error, loading>>
  /\ Resubscribe(FALSE)
  /\ UNCHANGED <<phase, id, videoRef, engines, hlsRef, videoSrc, channel, streamUrl,
                 retryCount, streamLoaded, loadingOffTimer, urlCache, watchHistory,
                 browserVars, qualityVars, metaFetch, outsideSession>>

\* variants of retryStream: one that never refuses, one that refuses late
retryStream_NoLimit(count) ==
  [accepted |-> TRUE, count |-> count + 1]
retryStream(count) ==
  IF count < MAX_RETRIES
    THEN [accepted |-> TRUE, count |-> count + 1]
    ELSE [accepted |-> FALSE, count |-> count]

\* the retry control of the error panel (shown when error && !streamLoaded)
\* calls retryStream
RetryStream ==
  /\ phase = "mounted"
  /\ error # NoError /\ ~streamLoaded
  /\ LET r == retryStream(retryCount)
     IN /\ retryCount' = r.count
        /\ IF r.accepted
             THEN error' = NoError /\ loading' = TRUE
             ELSE /\ error' = Msg("Stream failed after multiple attempts. Please try again later.")
                  /\ UNCHANGED loading
  /\ Resubscribe(FALSE)
  /\ UNCHANGED <<phase, id, videoRef, opens, engines, hlsRef, videoSrc, channel, streamUrl,
                 streamLoaded, loadingOffTimer, urlCache, watchHistory, browserVars,
                 qualityVars, metaFetch, outsideSession>>

\* parseInt of a level id
parseInt(levelId) == CASE levelId = "0" -> 0 [] levelId = "1" -> 1 [] levelId = "2" -> 2

\* a click on a choice of the quality menu: handleQualityChange(levelId);
\* hlsRef.current keeps a destroyed engine until the next one replaces it
HandleQualityChange ==
  /\ phase = "mounted"
  /\ hlsRef # 0
  /\ \E levelId \in {"auto"} \cup {qualities[i] : i \in 1..Len(qualities)} :
       /\ preferredQuality' = levelId
       /\ currentQuality' = levelId
       /\ engines' = [engines EXCEPT ![hlsRef] =
                        [@ EXCEPT !.currentLevel = IF levelId = "auto" THEN -1
                                                   ELSE parseInt(levelId)]]
  /\ UNCHANGED <<phase, id, videoRef, opens, hlsRef, videoSrc, loading, error, channel,
                 streamUrl, retryCount, streamLoaded, loadingOffTimer, onErrorLast,
                 urlCache, watchHistory, browserVars, qualities, manifestLevels,
                 metaFetch, outsideSession>>

\* the player leaves the page: the cleanups of its effects
PlayerUnmount ==
  /\ phase = "mounted"
  /\ phase' = "unmounted"
  /\ opens' = CleanedUp(opens)
  /\ exitReq' = IF pipElement # NoVideo THEN exitReq \cup {"player"} ELSE exitReq
  /\ engines' = Destroyed(engines, hlsRef)
  /\ hlsRef' = 0
  /\ videoRef' = NoVideo
  /\ videoSrc' = "none"
  /\ UNCHANGED <<id, loading, error, channel, streamUrl, retryCount, streamLoaded,
                 loadingOffTimer, onErrorLast, urlCache, watchHistory, platform,
                 routes, pipElement, pipSupported, qualityVars, metaFetch, outsideSession>>

(***************************************************************************)
(* PictureInPictureProvider                                                *)
(***************************************************************************)
MaxButtonClicks == 1
MaxOverlayClicks == 1
MaxPips == 2

PipVideo(k) == [el |-> "pip", n |-> k]
NoPipError == ""

\* a reference of the player as the string it is
RECURSIVE Join(_)
Join(ref) == IF ref = <<>> THEN "" ELSE Head(ref) \o Join(Tail(ref))

\* pipChannelInfo of handlePictureInPicture
pipChannelInfo(ch, url) ==
  Chan(Str(Join(IF ch.id # NoRef THEN ch.id ELSE url)),
       Str(IF ch.name # "" THEN ch.name ELSE "Unknown Channel"),
       Undef, Undef,
       IF ch.channelId = "" THEN Undef ELSE Str(ch.channelId))

\* everything the provider's functions read and write, as one value
Mgr ==
  [pipVideo |-> pipVideo, pipChannel |-> pipChannel, pipError |-> pipError,
   isSwitchingPip |-> isSwitchingPip, currentStreamUrl |-> currentStreamUrl,
   pipStatus |-> pipStatus, pipHlsRef |-> pipHlsRef, pipVideoRef |-> pipVideoRef,
   pips |-> pips, waiters |-> waiters, leaveTimers |-> leaveTimers,
   switchTimers |-> switchTimers, storage |-> storage, exitReq |-> exitReq,
   lastCall |-> lastCall]

\* The render after a handler: handleLeavePiP is memoized on isSwitchingPip
\* and enterPiP on handleLeavePiP, so a change of isSwitchingPip makes new
\* ones, which capture this render's pipVideo.
Commit(m) ==
  /\ pipVideo' = m.pipVideo
  /\ pipChannel' = m.pipChannel
  /\ pipError' = m.pipError
  /\ isSwitchingPip' = m.isSwitchingPip
  /\ currentStreamUrl' = m.currentStreamUrl
  /\ pipStatus' = m.pipStatus
  /\ pipHlsRef' = m.pipHlsRef
  /\ pipVideoRef' = m.pipVideoRef
  /\ pips' = m.pips
  /\ waiters' = m.waiters
  /\ leaveTimers' = m.leaveTimers
  /\ switchTimers' = m.switchTimers
  /\ storage' = m.storage
  /\ exitReq' = m.exitReq
  /\ lastCall' = m.lastCall
  /\ scope' = IF m.isSwitchingPip # isSwitchingPip THEN scope + 1 ELSE scope
  /\ capPipVideo' = IF m.isSwitchingPip # isSwitchingPip THEN m.pipVideo ELSE capPipVideo

outsidePip == <<now, ticks, platform, routes, pipSupported, videoRef, liveVars, sessionVars>>

\* isSwitchingPip as the functions of scope g captured it: it is false in
\* the first render and every scope starts at a change of it
capturedSwitching(g) == g % 2 = 1

\* removeEventListener of handleLeavePiP (scope g's) and handlePipError (one
\* function for all scopes) on video v
RemoveListeners(ps, v, g) ==
  [ps EXCEPT ![v.n] = [@ EXCEPT !.leave = IF @ = g THEN -1 ELSE @, !.errL = FALSE]]

DestroyPip(ps, ref) ==
  IF ref = 0 THEN ps ELSE [ps EXCEPT ![ref] = [@ EXCEPT !.engine = "destroyed"]]

RemoveVideo(ps, v) ==
  IF v = NoVideo THEN ps ELSE [ps EXCEPT ![v.n] = [@ EXCEPT !.inDom = FALSE]]

\* cleanupPipResources(force) of scope g
cleanupPipResources(m, g, force) ==
  IF capturedSwitching(g) /\ ~force THEN m
  ELSE
    LET v == m.pipVideoRef
        ps1 == IF v # NoVideo THEN RemoveListeners(m.pips, v, g) ELSE m.pips
    IN [m EXCEPT !.pips = RemoveVideo(DestroyPip(ps1, m.pipHlsRef), v),
                 !.exitReq = IF v # NoVideo /\ pipElement = v
                               THEN @ \cup {"manager"} ELSE @,
                 !.pipHlsRef = 0,
                 !.pipVideoRef = NoVideo,
                 !.pipVideo = NoVideo,
                 !.pipChannel = NullChan,
                 !.pipError = NoPipError,
                 !.currentStreamUrl = JNull,
                 !.pipStatus = "inactive",
                 !.storage = clearPipState(@)]

\* exitPipInternal() of scope g, up to its await: [m, awaits]
exitPipInternalHead(m, g) ==
  LET v == m.pipVideoRef IN
  IF v = NoVideo THEN [m |-> m, awaits |-> FALSE]
  ELSE
    LET m1 == [m EXCEPT !.pips = RemoveListeners(@, v, g)] IN
    IF pipElement = v
      THEN [m |-> [m1 EXCEPT !.exitReq = @ \cup {"manager"}], awaits |-> TRUE]
      ELSE [m |-> m1, awaits |-> FALSE]

\* exitPipInternal() from "Cleanup HLS instance" on
exitPipInternalTail(m) ==
  LET v == m.pipVideoRef
      attached == v # NoVideo /\ m.pips[v.n].inDom
  IN [m EXCEPT !.pips = IF attached THEN RemoveVideo(DestroyPip(@, m.pipHlsRef), v)
                                    ELSE DestroyPip(@, m.pipHlsRef),
               !.pipHlsRef = 0,
               !.pipVideoRef = IF attached THEN NoVideo ELSE @,
               !.pipVideo = NoVideo,
               !.pipChannel = NullChan,
               !.pipError = NoPipError,
               !.currentStreamUrl = JNull,
               !.pipStatus = "inactive",
               !.storage = clearPipState(@)]

\* what enterPiP remembers of a video it made: the arguments, the scope of
\* the enterPiP that made it, whether a click is behind the call, and where
\* the chain MANIFEST_PARSED -> play() -> requestPictureInPicture() stands
\* (pendingLeave: the 100 ms timers of handleLeavePiP that were running when
\* the video was made and have not fired since)
\* newPipVideo.muted as enterPiP sets it on the video it creates
MutedAtCreation(options) ==
  IF options.wasMuted # "undef" THEN options.wasMuted = "true" ELSE TRUE

NewPip(chan, url, opts, g, real) ==
  [chan |-> chan, url |-> url, opts |-> opts, scope |-> g, real |-> real,
   inDom |-> TRUE, leave |-> g, errL |-> TRUE, muted |-> MutedAtCreation(opts),
   hides |-> 0, reacquiring |-> FALSE, reqCap |-> NoVideo,
   engine |-> IF platform = "hls" THEN "live" ELSE "none",
   stage |-> IF platform = "none" THEN "settled" ELSE "loading",
   initSuccess |-> FALSE, pendingLeave |-> leaveTimers,
   safety |-> IF platform = "none" THEN "off" ELSE "armed"]

\* enterPiP from "Create new video element" to the end
enterPiPSetup(m, chan, url, opts, g, real, setItemThrows) ==
  LET k == Len(m.pips) + 1
      saved == [opts EXCEPT !.pendingPiP = "false"]
      s == savePipState(m.storage, chan, url, saved, now, setItemThrows)
      m1 == [m EXCEPT !.pips = Append(@, NewPip(chan, url, opts, g, real)),
                      !.pipVideoRef = PipVideo(k),
                      !.currentStreamUrl = url,
                      !.pipChannel = chan,
                      !.storage = s.after,
                      !.lastCall = SaveCall(chan, url, saved, now, s)]
      m2 == IF platform = "hls"
              THEN [m1 EXCEPT !.pipStatus = "loading", !.pipHlsRef = k]
            ELSE IF platform = "native"
              THEN [m1 EXCEPT !.pipStatus = "loading"]
            ELSE [cleanupPipResources([m1 EXCEPT !.pipStatus = "error"], g, FALSE)
                    EXCEPT !.pipError = "Failed to setup PiP"]
  IN [m2 EXCEPT !.switchTimers = @ + 1]

\* the options of enterPiP's first savePipState: {...options, pendingPiP: true}
PendingOptions_Unmarked(opts) == opts

PendingOptions(opts) == [opts EXCEPT !.pendingPiP = "true"]

EnterWaiter(chan, url, opts, g, real) ==
  [kind |-> "enter", chan |-> chan, url |-> url, opts |-> opts, scope |-> g,
   capV |-> NoVideo, real |-> real, video |-> NoVideo]

\* enterPiP(channel, streamUrl, options) of scope g, which captured pipVideo
\* as capV, up to its first await or to its end
enterPiP(m, chan, url, opts, g, capV, real, setItemThrows) ==
  IF ~pipSupported
    THEN [m EXCEPT !.pipError = "Picture-in-Picture not supported in this browser"]
  ELSE IF chan.t # "obj" \/ ~Truthy(url) THEN m
  ELSE
    LET pending == PendingOptions(opts)
        s == savePipState(m.storage, chan, url, pending, now, setItemThrows)
        m1 == [m EXCEPT !.storage = s.after,
                        !.lastCall = SaveCall(chan, url, pending, now, s),
                        !.pipChannel = chan]
    IN IF opts.fromUserGesture # "true"
         THEN [m1 EXCEPT !.pipStatus = "pending", !.pipError = "Click to activate PiP"]
       ELSE
         LET m2 == [m1 EXCEPT !.isSwitchingPip = TRUE, !.pipError = NoPipError,
                              !.pipStatus = "initializing"]
         IN IF pipElement # NoVideo \/ capV # NoVideo
              THEN LET h == exitPipInternalHead(m2, g) IN
                   IF h.awaits
                     THEN [h.m EXCEPT !.waiters = @ \cup {EnterWaiter(chan, url, opts, g, real)}]
                     ELSE enterPiPSetup(exitPipInternalTail(h.m), chan, url, opts, g, real,
                                        setItemThrows)
              ELSE enterPiPSetup(m2, chan, url, opts, g, real, setItemThrows)

\* a step of the provider: m is what its handler leaves
PipStep(m) == Commit(m) /\ UNCHANGED outsidePip

\* the 1000 ms timer of the restore effect: the first render's enterPiP
RestoreTimerFires_AsGesture ==
  /\ restoreTimer # NoItem
  /\ \E throws \in BOOLEAN :
       PipStep(enterPiP(Mgr, restoreTimer.channel, restoreTimer.streamUrl,
                        [restoreTimer.options EXCEPT !.fromUserGesture = "true"],
                        0, NoVideo, FALSE, throws))
  /\ restoreTimer' = NoItem
  /\ UNCHANGED <<pipElement, leaveEvents, clicks>>

RestoreTimerFires ==
  /\ restoreTimer # NoItem
  /\ \E throws \in BOOLEAN :
       PipStep(enterPiP(Mgr, restoreTimer.channel, restoreTimer.streamUrl,
                        restoreTimer.options, 0, NoVideo, FALSE, throws))
  /\ restoreTimer' = NoItem
  /\ UNCHANGED <<pipElement, leaveEvents, clicks>>

MutedChoices == {"false"}

\* handlePictureInPicture: the player's PiP button
HandlePictureInPicture ==
  /\ phase = "mounted" /\ videoRef # NoVideo /\ channel # NoChannel
  /\ clicks.button < MaxButtonClicks /\ Len(pips) < MaxPips
  /\ \E muted \in MutedChoices, throws \in BOOLEAN :
       PipStep(enterPiP(Mgr, pipChannelInfo(channel, streamUrl), Str(Join(streamUrl)),
                        [NoOptions EXCEPT !.fromUserGesture = "true", !.wasMuted = muted],
                        scope, capPipVideo, TRUE, throws))
  /\ clicks' = [clicks EXCEPT !.button = @ + 1]
  /\ UNCHANGED <<pipElement, leaveEvents, restoreTimer>>

\* enterPiP after its await of exitPipInternal()
EnterPiPResumes ==
  \E w \in waiters, throws \in BOOLEAN :
    /\ w.kind = "enter"
    /\ "manager" \notin exitReq
    /\ PipStep(enterPiPSetup(exitPipInternalTail([Mgr EXCEPT !.waiters = @ \ {w}]),
                             w.chan, w.url, w.opts, w.scope, w.real, throws))
    /\ UNCHANGED <<pipElement, leaveEvents, restoreTimer, clicks>>

\* exitPiP(): the overlay's close button; the first render's function
ExitPiP ==
  /\ pipSupported
  /\ pipVideo # NoVideo \/ pipStatus \in {"loading", "initializing", "playing"}
  /\ clicks.overlay < MaxOverlayClicks
  /\ LET h == exitPipInternalHead([Mgr EXCEPT !.isSwitchingPip = TRUE,
                                              !.pipStatus = "closing"], 0)
     IN IF h.awaits
          THEN PipStep([h.m EXCEPT !.waiters = @ \cup
                          {[EnterWaiter(NullChan, JNull, NoOptions, 0, FALSE)
                              EXCEPT !.kind = "exit"]}])
          ELSE PipStep([exitPipInternalTail(h.m) EXCEPT !.switchTimers = @ + 1])
  /\ clicks' = [clicks EXCEPT !.overlay = @ + 1]
  /\ UNCHANGED <<pipElement, leaveEvents, restoreTimer>>

\* exitPiP after the await inside exitPipInternal(), and its finally
ExitPiPResumes ==
  \E w \in waiters :
    /\ w.kind = "exit"
    /\ "manager" \notin exitReq
    /\ PipStep([exitPipInternalTail([Mgr EXCEPT !.waiters = @ \ {w}])
                  EXCEPT !.switchTimers = @ + 1])
    /\ UNCHANGED <<pipElement, leaveEvents, restoreTimer, clicks>>

\* a setIsSwitchingPip(false) timer fires
SwitchTimerFires ==
  /\ switchTimers > 0
  /\ PipStep([Mgr EXCEPT !.switchTimers = @ - 1, !.isSwitchingPip = FALSE])
  /\ UNCHANGED <<pipElement, leaveEvents, restoreTimer, clicks>>

Settle(ps, k, stage) == [ps EXCEPT ![k] = [@ EXCEPT !.stage = stage]]

\* what the failure branches of the chain do: setPipStatus('error'),
\* cleanupPipResources(), setPipError(message)
GiveUp(m, g, message) ==
  [cleanupPipResources([m EXCEPT !.pipStatus = "error"], g, FALSE)
     EXCEPT !.pipError = message]

\* Hls.Events.MANIFEST_PARSED on the engine of video k; on Safari, the
\* video's loadedmetadata
PipManifestParsed ==
  \E k \in 1..Len(pips) :
    /\ pips[k].stage = "loading"
    /\ IF platform = "hls" THEN pips[k].engine = "live" ELSE pips[k].inDom
    /\ PipStep([Mgr EXCEPT !.pips = [@ EXCEPT ![k] = [@ EXCEPT !.initSuccess = TRUE,
                                                                !.stage = "playing"]],
                           !.pipStatus = IF platform = "hls" THEN "ready" ELSE "playing"])
    /\ UNCHANGED <<pipElement, leaveEvents, restoreTimer, clicks>>

\* newPipVideo.play() settles
PipPlaySettles ==
  \E k \in 1..Len(pips), ok \in BOOLEAN :
    /\ pips[k].stage = "playing"
    /\ ok => pips[k].inDom
    /\ LET m == [Mgr EXCEPT !.pips = Settle(@, k, IF ok THEN "requesting" ELSE "settled")]
       IN PipStep(IF ok
                    THEN IF platform = "hls" THEN [m EXCEPT !.pipStatus = "playing"] ELSE m
                    ELSE GiveUp(m, pips[k].scope,
                                IF platform = "hls" THEN "Playback failed to start"
                                                    ELSE "Failed to enter PiP mode"))
    /\ UNCHANGED <<pipElement, leaveEvents, restoreTimer, clicks>>

RequestOutcomes == {"granted", "NotAllowedError", "InvalidStateError"}

\* the browser takes video k into Picture-in-Picture: a video it replaces
\* gets leavepictureinpicture
Granted(k) ==
  /\ pipElement' = PipVideo(k)
  /\ leaveEvents' = IF pipElement \in {NoVideo, PipVideo(k)} THEN leaveEvents
                    ELSE leaveEvents \cup {pipElement.n}

\* newPipVideo.requestPictureInPicture() settles; the browser grants it only
\* to a call that a click is behind
PipRequestSettlesWith(k, outcome) ==
    /\ pips[k].stage = "requesting"
    /\ outcome = "granted" => (pips[k].real /\ pips[k].inDom)
    /\ LET p == pips[k]
           m == [Mgr EXCEPT !.pips = Settle(@, k, "settled")]
           needs == [p.opts EXCEPT !.needsActivation = "true"]
           s == savePipState(storage, p.chan, p.url, needs, now, FALSE)
       IN IF outcome = "granted"
            THEN /\ PipStep([m EXCEPT !.pipVideo = PipVideo(k),
                                      !.pipError = IF platform = "hls" THEN NoPipError ELSE @,
                                      !.pipStatus = "active"])
                 /\ Granted(k)
          ELSE IF outcome = "NotAllowedError" /\ platform = "hls"
            THEN /\ PipStep([m EXCEPT !.pipVideo = PipVideo(k),
                                      !.pipError = "Click to activate PiP mode",
                                      !.pipStatus = "needsActivation",
                                      !.storage = s.after,
                                      !.lastCall = SaveCall(p.chan, p.url, needs, now, s)])
                 /\ UNCHANGED <<pipElement, leaveEvents>>
          ELSE /\ PipStep(GiveUp(m, p.scope, "Failed to enter PiP mode"))
               /\ UNCHANGED <<pipElement, leaveEvents>>
    /\ UNCHANGED <<restoreTimer, clicks>>

PipRequestSettles ==
  \E k \in 1..Len(pips), outcome \in RequestOutcomes : PipRequestSettlesWith(k, outcome)

PipErrorTypes == {"networkError", "otherError"}

\* Hls.Events.ERROR with data.fatal on the engine of video k
PipEngineError ==
  \E k \in 1..Len(pips), type \in PipErrorTypes :
    /\ pips[k].engine = "live"
    /\ PipStep(CASE type = "networkError" ->
                      [Mgr EXCEPT !.pipStatus = "error", !.pipError = "Network error"]
                 [] type = "mediaError" ->
                      [Mgr EXCEPT !.pipStatus = "error", !.pipError = "Media error"]
                 [] OTHER -> GiveUp(Mgr, pips[k].scope, "Fatal stream error"))
    /\ UNCHANGED <<pipElement, leaveEvents, restoreTimer, clicks>>

\* the 10 s timer of video k, when it finds something to do: once
\* initSuccess is set or pipVideoRef has moved on, it never does again
PipSafetyTimer ==
  \E k \in 1..Len(pips) :
    /\ pips[k].safety = "armed"
    /\ ~pips[k].initSuccess /\ pipVideoRef = PipVideo(k)
    /\ PipStep(GiveUp([Mgr EXCEPT !.pips = [@ EXCEPT ![k] = [@ EXCEPT !.safety = "off"]]],
                      pips[k].scope, "Stream initialization timed out"))
    /\ UNCHANGED <<pipElement, leaveEvents, restoreTimer, clicks>>

\* how often the document is hidden while one video is current
MaxHides == 1

\* visibilitychange with document.hidden: handleVisibilityChange of the render
\* that holds the current pipVideo asks the browser for Picture-in-Picture
\* again on pipVideoRef.current; without a video in pipVideoRef it does nothing
HandleVisibilityChange ==
  /\ pipVideo # NoVideo /\ pipElement = NoVideo
  /\ pipVideoRef # NoVideo
  /\ pips[pipVideoRef.n].hides < MaxHides
  /\ PipStep([Mgr EXCEPT !.pipStatus = "reactivating",
                         !.pips = [@ EXCEPT ![pipVideoRef.n] =
                                     [@ EXCEPT !.hides = @ + 1,
                                               !.reacquiring = TRUE,
                                               !.reqCap = pipVideo]]])
  /\ UNCHANGED <<pipElement, leaveEvents, restoreTimer, clicks>>

\* the requestPictureInPicture() of handleVisibilityChange settles: nothing
\* follows when it resolves, its catch sets the status from the pipVideo the
\* handler was created with
ReacquireSettlesWith(k, outcome) ==
  /\ pips[k].reacquiring
  /\ LET done == [Mgr EXCEPT !.pips = [@ EXCEPT ![k] = [@ EXCEPT !.reacquiring = FALSE]]]
     IN IF outcome = "ok"
          THEN /\ pips[k].inDom /\ pipElement = NoVideo
               /\ PipStep(done)
               /\ pipElement' = PipVideo(k)
          ELSE /\ PipStep([done EXCEPT !.pipStatus = IF pips[k].reqCap # NoVideo
                                                       THEN "active" ELSE "inactive"])
               /\ UNCHANGED pipElement
  /\ UNCHANGED <<leaveEvents, restoreTimer, clicks>>

ReacquireSettles ==
  \E k \in 1..Len(pips), outcome \in {"ok", "rejected"} : ReacquireSettlesWith(k, outcome)

\* the 10 s timer of video k runs out, with the test it makes
SafetyTimerFiresOn_AnyVideo(k) ==
  /\ pips[k].safety = "armed"
  /\ LET off == [Mgr EXCEPT !.pips = [@ EXCEPT ![k] = [@ EXCEPT !.safety = "off"]]]
     IN IF ~pips[k].initSuccess
          THEN PipStep(GiveUp(off, pips[k].scope, "Stream initialization timed out"))
          ELSE PipStep(off)
  /\ UNCHANGED <<pipElement, leaveEvents, restoreTimer, clicks>>

SafetyTimerFiresOn(k) ==
  /\ pips[k].safety = "armed"
  /\ LET off == [Mgr EXCEPT !.pips = [@ EXCEPT ![k] = [@ EXCEPT !.safety = "off"]]]
     IN IF ~pips[k].initSuccess /\ pipVideoRef = PipVideo(k)
          THEN PipStep(GiveUp(off, pips[k].scope, "Stream initialization timed out"))
          ELSE PipStep(off)
  /\ UNCHANGED <<pipElement, leaveEvents, restoreTimer, clicks>>

\* the timer of a video that has initialised, or that pipVideoRef does not
\* hold any more, runs out
PipSafetyTimerLate ==
  \E k \in 1..Len(pips) :
    /\ ~(~pips[k].initSuccess /\ pipVideoRef = PipVideo(k))
    /\ SafetyTimerFiresOn(k)

\* leavepictureinpicture reaches video k: the handleLeavePiP still attached
LeavePiP ==
  \E k \in leaveEvents :
    /\ leaveEvents' = leaveEvents \ {k}
    /\ PipStep(IF pips[k].leave # -1 /\ ~capturedSwitching(pips[k].leave)
                 THEN [Mgr EXCEPT !.pipStatus = "closing",
                                  !.leaveTimers = @ \cup {pips[k].leave}]
                 ELSE Mgr)
    /\ UNCHANGED <<pipElement, restoreTimer, clicks>>

\* the 100 ms timer of handleLeavePiP: cleanupPipResources() of its scope
LeaveTimerFiresOf(g) ==
  /\ g \in leaveTimers
  /\ PipStep(cleanupPipResources(
               [Mgr EXCEPT !.leaveTimers = @ \ {g},
                           !.pips = [k \in DOMAIN @ |->
                                       [@[k] EXCEPT !.pendingLeave = @ \ {g}]]],
               g, FALSE))
  /\ UNCHANGED <<pipElement, leaveEvents, restoreTimer, clicks>>

LeaveTimerFires == \E g \in leaveTimers : LeaveTimerFiresOf(g)

\* the browser carries out document.exitPictureInPicture(); every call in
\* flight settles
BrowserExitsPip ==
  /\ exitReq # {}
  /\ exitReq' = {}
  /\ pipElement' = NoVideo
  /\ leaveEvents' = IF pipElement = NoVideo THEN leaveEvents
                    ELSE leaveEvents \cup {pipElement.n}
  /\ UNCHANGED <<storage, lastCall, pipVideo, pipChannel, pipError, isSwitchingPip,
                 currentStreamUrl, pipStatus, pipHlsRef, pipVideoRef, scope, capPipVideo,
                 pips, waiters, leaveTimers, switchTimers, restoreTimer, clicks, outsidePip>>

\* the user closes the Picture-in-Picture window
UserClosesPip ==
  /\ pipElement # NoVideo
  /\ pipElement' = NoVideo
  /\ leaveEvents' = leaveEvents \cup {pipElement.n}
  /\ UNCHANGED <<storage, lastCall, exitReq, pipVideo, pipChannel, pipError,
                 isSwitchingPip, currentStreamUrl, pipStatus, pipHlsRef, pipVideoRef, scope,
                 capPipVideo, pips, waiters, leaveTimers, switchTimers, restoreTimer, clicks,
                 outsidePip>>

ActivateWaiter(rec, g, capV, v) ==
  [kind |-> "activate", chan |-> rec.channel, url |-> rec.streamUrl, opts |-> rec.options,
   scope |-> g, capV |-> capV, real |-> TRUE, video |-> v]

\* activatePendingPiP(): a click on the overlay while it asks for one
ActivatePendingPiP ==
  /\ pipSupported
  /\ pipStatus \in {"pending", "needsActivation"}
  /\ clicks.overlay < MaxOverlayClicks /\ Len(pips) < MaxPips
  /\ LET r == loadPipState(storage, now)
         loaded == [Mgr EXCEPT !.storage = r.after, !.lastCall = LoadCall(storage, now, r)]
         m == [loaded EXCEPT !.pipError = NoPipError, !.pipStatus = "activating"]
     IN IF r.result = NoItem THEN PipStep(loaded)
        ELSE IF pipVideoRef # NoVideo /\ pipStatus = "needsActivation"
          THEN PipStep([m EXCEPT !.waiters = @ \cup
                          {ActivateWaiter(r.result, scope, capPipVideo, pipVideoRef)}])
        ELSE \E throws \in BOOLEAN :
               PipStep(enterPiP(m, r.result.channel, r.result.streamUrl,
                                [r.result.options EXCEPT !.fromUserGesture = "true",
                                                         !.pendingPiP = "false"],
                                scope, capPipVideo, TRUE, throws))
  /\ clicks' = [clicks EXCEPT !.overlay = @ + 1]
  /\ UNCHANGED <<pipElement, leaveEvents, restoreTimer>>

\* activatePendingPiP after its await of requestPictureInPicture() on the
\* video it found
ActivateSettles ==
  \E w \in waiters, granted \in BOOLEAN, throws \in BOOLEAN :
    /\ w.kind = "activate"
    /\ granted => pips[w.video.n].inDom
    /\ LET m == [Mgr EXCEPT !.waiters = @ \ {w}]
           active == [w.opts EXCEPT !.pendingPiP = "false", !.needsActivation = "false"]
           s == savePipState(storage, w.chan, w.url, active, now, throws)
       IN IF granted
            THEN /\ PipStep([m EXCEPT !.pipVideo = pipVideoRef,
                                      !.pipStatus = "active",
                                      !.storage = s.after,
                                      !.lastCall = SaveCall(w.chan, w.url, active, now, s)])
                 /\ Granted(w.video.n)
            ELSE /\ PipStep(enterPiP(m, w.chan, w.url,
                                     [w.opts EXCEPT !.fromUserGesture = "true",
                                                    !.pendingPiP = "false"],
                                     w.scope, w.capV, TRUE, throws))
                 /\ UNCHANGED <<pipElement, leaveEvents>>
    /\ UNCHANGED <<restoreTimer, clicks>>

(***************************************************************************)
(* Initial states and specifications                                       *)
(***************************************************************************)
Platforms == {"hls", "native", "none"}

\* the page before the player is shown
InitSession ==
  /\ phase = "initial"
  /\ id = NoRef
  /\ opens = <<>>
  /\ engines = <<>>
  /\ hlsRef = 0
  /\ videoSrc = "none"
  /\ loading = TRUE
  /\ error = NoError
  /\ channel = NoChannel
  /\ streamUrl = NoRef
  /\ retryCount = 0
  /\ streamLoaded = FALSE
  /\ loadingOffTimer = FALSE
  /\ onErrorLast = FALSE
  /\ urlCache = EmptyCache
  /\ watchHistory = <<>>
  /\ qualities = <<>>
  /\ currentQuality = "auto"
  /\ preferredQuality = NoPreference
  /\ manifestLevels = 2
  /\ metaFetch = NoFetch

\* the player showing DirectUrl through an engine whose manifest is parsed
LoadedChannel == ChannelFor(DirectUrl, NoData, <<>>)
ShowingDirectUrl(es, ref, src, err, loaded) ==
  /\ phase = "mounted"
  /\ id = DirectUrl
  /\ opens = <<[id |-> DirectUrl, ref |-> DirectUrl, isMounted |-> TRUE, pc |-> "done",
                 channelData |-> NoData, url |-> DirectUrl, apiCalls |-> 0,
                 timer |-> "armed", capLoading |-> TRUE, capError |-> NoError,
                 history |-> <<>>]>>
  /\ engines = es
  /\ hlsRef = ref
  /\ videoSrc = src
  /\ loading = FALSE
  /\ error = err
  /\ channel = LoadedChannel
  /\ streamUrl = DirectUrl
  /\ retryCount = 0
  /\ streamLoaded = loaded
  /\ loadingOffTimer = FALSE
  /\ onErrorLast = FALSE
  /\ urlCache = CachePut(EmptyCache, DirectUrl, CacheBool(TRUE))
  /\ watchHistory = <<LoadedChannel>>
  /\ qualities = IF loaded /\ src = "hls" THEN QualityLevels(2) ELSE <<>>
  /\ currentQuality = "auto"
  /\ preferredQuality = NoPreference
  /\ manifestLevels = 2
  /\ metaFetch = NoFetch
LoadedSession ==
  ShowingDirectUrl(<<[NewEngine(DirectUrl, 1) EXCEPT !.parsed = TRUE]>>, 1, "hls", NoError,
                   TRUE)
\* the same through the video's own HLS support, and where there is none
LoadedNativeSession == ShowingDirectUrl(<<>>, 0, "nativeReady", NoError, TRUE)
UnsupportedSession ==
  ShowingDirectUrl(<<>>, 0, "none", Msg("Your browser doesn't support HLS playback"), FALSE)

InitClock == now = Now0 /\ ticks = 0 /\ lastCall = NoCall
InitBrowser == pipElement = NoVideo /\ exitReq = {} /\ pipSupported = TRUE
InitClassifier ==
  /\ isLive = FALSE
  /\ showTimeline = FALSE
  /\ liveDetectionComplete = FALSE
  /\ capLDC = FALSE
  /\ isDragging = FALSE
  /\ vDuration = NaN
  /\ liveChecks = 0

\* a provider without a saved record, for the specifications of the player
NoProvider ==
  /\ pipVideo = NoVideo
  /\ pipChannel = NullChan
  /\ pipError = NoPipError
  /\ isSwitchingPip = FALSE
  /\ currentStreamUrl = JNull
  /\ pipStatus = "inactive"
  /\ pipHlsRef = 0
  /\ pipVideoRef = NoVideo
  /\ scope = 0
  /\ capPipVideo = NoVideo
  /\ pips = <<>>
  /\ waiters = {}
  /\ leaveEvents = {}
  /\ leaveTimers = {}
  /\ switchTimers = 0
  /\ restoreTimer = NoItem
  /\ clicks = [button |-> 0, overlay |-> 0]

\* pipStateManager alone, over whatever the page's session storage holds
InitStore ==
  /\ NoProvider
  /\ storage \in StoredItems
  /\ InitClock
  /\ platform = "hls" /\ routes = Ids /\ InitBrowser
  /\ videoRef = NoVideo
  /\ InitClassifier
  /\ InitSession

NextStore == LoadPipState \/ SavePipState \/ ClearPipState \/ Tick

SpecStore == InitStore /\ [][NextStore]_vars

\* the classification effect of a player that has loaded its stream
InitLive ==
  /\ NoProvider
  /\ storage = NoItem
  /\ InitClock
  /\ platform = "hls" /\ routes = Ids /\ InitBrowser
  /\ videoRef = PlayerVideo
  /\ InitClassifier
  /\ LoadedSession

NextLive ==
  \/ TimeUpdate \/ DurationChange \/ LoadedMetadata \/ CheckStreamType
  \/ DragStart \/ DragEnd

SpecLive == InitLive /\ [][NextLive]_vars

\* the classifier of a player whose channel changes
NextLiveOpens == NextLive \/ ChangeId

InitLiveOpens ==
  /\ NoProvider
  /\ storage = NoItem
  /\ InitClock
  /\ platform = "hls" /\ routes = {DirectUrl, ChannelName} /\ InitBrowser
  /\ videoRef = PlayerVideo
  /\ InitClassifier
  /\ LoadedSession

SpecLiveOpens == InitLiveOpens /\ [][NextLiveOpens]_vars

\* the player's session, from the route showing it to its unmount, on a
\* page that links a direct stream and a channel of the directory
InitPlayer ==
  /\ NoProvider
  /\ storage = NoItem
  /\ InitClock
  /\ platform \in Platforms /\ routes = {DirectUrl, ChannelName} /\ InitBrowser
  /\ videoRef = NoVideo
  /\ InitClassifier
  /\ InitSession

NextPlayer ==
  \/ PlayerMount \/ ChangeId
  \/ GetChannelDetailsDone \/ FindChannelDone
  \/ ReadHistory \/ ReadFavorites \/ LoadThrows \/ WriteHistoryDone
  \/ ManifestParsed \/ EngineError
  \/ NativeLoaded \/ VideoReady \/ LoadingOff \/ VideoError
  \/ WatchdogFires \/ RetryStream \/ PlayerUnmount

SpecPlayer == InitPlayer /\ [][NextPlayer]_vars

\* the player when every pending promise settles, every running timer fires
\* and the engine and the video report what they have to report
PlayerSettles ==
  /\ WF_vars(GetChannelDetailsDone) /\ WF_vars(FindChannelDone)
  /\ WF_vars(ReadHistory) /\ WF_vars(ReadFavorites) /\ WF_vars(WriteHistoryDone)
  /\ WF_vars(ManifestParsed) /\ WF_vars(NativeLoaded) /\ WF_vars(VideoReady)
  /\ WF_vars(LoadingOff) /\ WF_vars(WatchdogFires)

\* one session of the player: the route does not change
NextSession ==
  \/ PlayerMount
  \/ GetChannelDetailsDone \/ FindChannelDone
  \/ ReadHistory \/ ReadFavorites \/ LoadThrows \/ WriteHistoryDone
  \/ ManifestParsed \/ EngineError
  \/ NativeLoaded \/ VideoReady \/ LoadingOff \/ VideoError
  \/ WatchdogFires \/ RetryStream \/ PlayerUnmount

SpecPlayerSettles == InitPlayer /\ [][NextSession]_vars /\ PlayerSettles

\* the player with its metadata enrichment: channels are opened and loaded
\* while fetchMetadata() is in flight
NextEnrich ==
  \/ PlayerMount \/ ChangeId
  \/ GetChannelDetailsDone \/ FindChannelDone
  \/ ReadHistory \/ ReadFavorites \/ LoadThrows \/ WriteHistoryDone
  \/ FetchMetadataStarts \/ FetchMetadataDone
  \/ PlayerUnmount

SpecEnrich == InitPlayer /\ [][NextEnrich]_vars

\* ---------------------------------------------------------------------------
\* The channel directory and its two lookups

\* the strings of the directory, with String.includes() on their lower-case
\* forms
DirectoryIds == {"bbc", "bbc1"}
DirectoryNames == {"BBC", "BBC One", "CNN"}
SearchTerms == {"bbc", "BBC", "bbc1"}
includes(str, part) ==
  \/ str = part
  \/ str = "bbc one" /\ part = "bbc"
  \/ str = "bbc1" /\ part = "bbc"

\* the stream URL the streams list holds for a channel id
StreamUrlOf(channelId) == <<"http://api", "/", channelId, ".m3u8">>

\* the channel lists of at most two entries with distinct ids and names, and
\* the directories: a channel list, the ids that have streams, whether the
\* 'channels_metadata' cache holds the search term
DirectoryChannels == [id : DirectoryIds, name : DirectoryNames]
ChannelLists ==
  {<<>>} \cup {<<c>> : c \in DirectoryChannels}
         \cup {<<c, d>> : <<c, d>> \in
                  {pair \in DirectoryChannels \X DirectoryChannels :
                     pair[1].id # pair[2].id /\ pair[1].name # pair[2].name}}
Directories ==
  [channels : ChannelLists, streams : SUBSET DirectoryIds, cached : BOOLEAN]

\* channels.find(test): the first entry that passes, or 0
FirstIndex(channels, Test(_)) ==
  IF \E i \in 1..Len(channels) : Test(channels[i])
    THEN CHOOSE i \in 1..Len(channels) :
           Test(channels[i]) /\ \A j \in 1..(i - 1) : ~Test(channels[j])
    ELSE 0

\* the entry with channel.url = channelStreams[0].url when it has streams
WithStreamUrl(ch, streams) ==
  [name |-> ch.name, id |-> ch.id,
   url |-> IF ch.id \in streams THEN StreamUrlOf(ch.id) ELSE NoRef]

\* apiClient.getChannelDetails(channelId): the entry with exactly this id
getChannelDetails(channelId, dir) ==
  LET Same(ch) == ch.id = channelId
      i == FirstIndex(dir.channels, Same)
  IN IF i = 0 THEN NoData ELSE WithStreamUrl(dir.channels[i], dir.streams)

\* apiClient.findChannel(nameOrId): the cached entry of the search term, or
\* the first entry whose id or name equals the term or whose name includes
\* it, without regard to case; a cached entry is one stored with its URL
findChannel(nameOrId, dir) ==
  LET searchTerm == toLowerCase(nameOrId)
      Matches(ch) ==
        \/ toLowerCase(ch.id) = searchTerm
        \/ toLowerCase(ch.name) = searchTerm
        \/ includes(toLowerCase(ch.name), searchTerm)
      i == FirstIndex(dir.channels, Matches)
  IN IF dir.cached
       THEN [name |-> "BBC", id |-> searchTerm, url |-> StreamUrlOf(searchTerm)]
     ELSE IF i = 0 THEN NoData
     ELSE WithStreamUrl(dir.channels[i], dir.streams)

\* resolveAndLoadStream for a reference that is no direct URL: the channel
\* data of the lookups and what comes of it
NoUrlMessage == Msg("Channel found but no stream URL available")
resolveFromApi(channelId, dir) ==
  LET details == getChannelDetails(channelId, dir)
      channelData == IF details = NoData THEN findChannel(channelId, dir) ELSE details
  IN IF channelData.url # NoRef
       THEN [finalStreamUrl |-> channelData.url, error |-> NoError]
       ELSE [finalStreamUrl |-> NoRef, error |-> NoUrlMessage]

ResolveCall(channelId, dir, r) ==
  [op |-> "resolve", channelId |-> channelId, directory |-> dir,
   finalStreamUrl |-> r.finalStreamUrl, error |-> r.error]

\* a reference is resolved against a directory
ResolveFromApi ==
  /\ \E channelId \in SearchTerms, dir \in Directories :
       lastCall' = ResolveCall(channelId, dir, resolveFromApi(channelId, dir))
  /\ UNCHANGED <<storage, now, ticks, browserVars, videoRef, liveVars, sessionVars, pipVars>>

InitLookup == InitPlayer /\ platform = "hls"
NextLookup == ResolveFromApi
SpecLookup == InitLookup /\ [][NextLookup]_vars

\* ---------------------------------------------------------------------------
\* favorites.js, idbStorage: get and set of one key over IndexedDB, with the
\* module's cache Map
CACHE_TTL == 120000
CompressOver == 10000
CacheUnder == 500000

\* values by name and by the length of their JSON text
SmallLen == 100
MediumLen == 20000
HugeLen == 600000
StoreValue(name, len) == [name |-> name, len |-> len]
StoreValues ==
  {StoreValue(n, l) : n \in {"old", "new"}, l \in {SmallLen, MediumLen, HugeLen}}

\* what IndexedDB holds for the key: nothing, the value itself, the marker
\* 'CMPR:' with the compressed JSON text, or the bare JSON text
NoEntry == [t |-> "none"]
AsIs(v) == [t |-> "value", v |-> v]
Compressed(v) == [t |-> "cmpr", v |-> v]
JsonText(v) == [t |-> "text", v |-> v]
\* what get returns: undefined, a value, or a string
Undefined == [t |-> "undefined"]
TextLen(r) == IF r.t = "value" THEN 0 ELSE r.v.len

\* a cache entry for the key: {value, expires}, or none
NoCached == [has |-> FALSE]
Cached(r, expires) == [has |-> TRUE, value |-> r, expires |-> expires]

\* set(key, value, useCompression): [ok, db, cache]; lz is what getLZString()
\* resolves to, idbSetThrows whether the write is rejected
idbStorageSet_CacheAlways(db, cache, value, useCompression, lz, idbSetThrows, t) ==
  LET isLarge == value.len > CompressOver
      storableValue == IF useCompression \/ isLarge
                         THEN IF lz THEN Compressed(value) ELSE JsonText(value)
                         ELSE AsIs(value)
  IN IF idbSetThrows THEN [ok |-> FALSE, db |-> db, cache |-> cache]
     ELSE [ok |-> TRUE, db |-> storableValue,
           cache |-> Cached(AsIs(value), t + CACHE_TTL)]

idbStorageSet(db, cache, value, useCompression, lz, idbSetThrows, t) ==
  LET isLarge == value.len > CompressOver
      storableValue == IF useCompression \/ isLarge
                         THEN IF lz THEN Compressed(value) ELSE JsonText(value)
                         ELSE AsIs(value)
  IN IF idbSetThrows THEN [ok |-> FALSE, db |-> db, cache |-> cache]
     ELSE [ok |-> TRUE, db |-> storableValue,
           cache |-> IF value.len < CacheUnder
                       THEN Cached(AsIs(value), t + CACHE_TTL) ELSE cache]

\* get(key): [result, cache]; without lz-string the text behind the marker
\* is not JSON, JSON.parse throws and the raw string is the result
idbStorageGet(db, cache, lz, t) ==
  IF cache.has /\ cache.expires > t THEN [result |-> cache.value, cache |-> cache]
  ELSE IF db = NoEntry THEN [result |-> Undefined, cache |-> NoCached]
  ELSE LET result == IF db.t = "cmpr" /\ lz THEN AsIs(db.v) ELSE db
       IN [result |-> result,
           cache |-> IF result.t = "value" \/ TextLen(result) < CacheUnder
                       THEN Cached(result, t + CACHE_TTL) ELSE NoCached]

\* what the cache holds for the key before the write: nothing, or an entry
\* an earlier get or set left, still valid or expired
CachesBefore ==
  {NoCached} \cup
  {Cached(AsIs(StoreValue("old", SmallLen)), now + d) : d \in {-1, 1, CACHE_TTL}}

SetGetCall(value, cache, useCompression, lz, wait, w, r) ==
  [op |-> "setget", value |-> value, cacheBefore |-> cache,
   useCompression |-> useCompression, lz |-> lz, wait |-> wait,
   ok |-> w.ok, result |-> r.result]

\* set(key, value) and, once it has resolved, get(key)
SetThenGet ==
  /\ \E value \in StoreValues, cache \in CachesBefore, useCompression \in BOOLEAN,
        lz \in BOOLEAN, idbSetThrows \in BOOLEAN, wait \in {0, CACHE_TTL} :
       LET w == idbStorageSet(NoEntry, cache, value, useCompression, lz, idbSetThrows, now)
           r == idbStorageGet(w.db, w.cache, lz, now + wait)
       IN lastCall' = SetGetCall(value, cache, useCompression, lz, wait, w, r)
  /\ UNCHANGED <<storage, now, ticks, browserVars, videoRef, liveVars, sessionVars, pipVars>>

NextIdb == SetThenGet
SpecIdb == InitLookup /\ [][NextIdb]_vars

\* the engine and the quality menu of a player that has set up its first
\* engine, that found any stored preference and whose streams have one level
\* or two
Preferences == {NoPreference, "auto", "1"}
LevelCounts == {1, 2}
InitEngine ==
  /\ NoProvider
  /\ storage = NoItem
  /\ InitClock
  /\ platform = "hls" /\ routes = {DirectUrl, ChannelName} /\ InitBrowser
  /\ videoRef = PlayerVideo
  /\ InitClassifier
  /\ phase = "mounted"
  /\ id = DirectUrl
  /\ opens = <<[id |-> DirectUrl, ref |-> DirectUrl, isMounted |-> TRUE, pc |-> "done",
                 channelData |-> NoData, url |-> DirectUrl, apiCalls |-> 0,
                 timer |-> "armed", capLoading |-> TRUE, capError |-> NoError,
                 history |-> <<>>]>>
  /\ engines = <<NewEngine(DirectUrl, 1)>>
  /\ hlsRef = 1
  /\ videoSrc = "hls"
  /\ loading = TRUE
  /\ error = NoError
  /\ channel = LoadedChannel
  /\ streamUrl = DirectUrl
  /\ retryCount = 0
  /\ streamLoaded = FALSE
  /\ loadingOffTimer = FALSE
  /\ onErrorLast = FALSE
  /\ urlCache = CachePut(EmptyCache, DirectUrl, CacheBool(TRUE))
  /\ watchHistory = <<LoadedChannel>>
  /\ qualities = <<>>
  /\ preferredQuality \in Preferences
  /\ currentQuality = InitialQuality(preferredQuality)
  /\ manifestLevels \in LevelCounts
  /\ metaFetch = NoFetch

NextEngine ==
  \/ ChangeId \/ GetChannelDetailsDone \/ FindChannelDone
  \/ ReadHistory \/ ReadFavorites \/ WriteHistoryDone
  \/ ManifestParsed \/ EngineError \/ MediaError \/ HandleQualityChange
  \/ RetryStream \/ PlayerUnmount

SpecEngine == InitEngine /\ [][NextEngine]_vars

\* resolving and loading alone, over every kind of id
InitResolve ==
  /\ NoProvider
  /\ storage = NoItem
  /\ InitClock
  /\ platform \in Platforms /\ routes = Ids /\ InitBrowser
  /\ videoRef = NoVideo
  /\ InitClassifier
  /\ InitSession

NextResolve ==
  \/ PlayerMount \/ ChangeId
  \/ GetChannelDetailsDone \/ FindChannelDone
  \/ ReadHistory \/ ReadFavorites \/ LoadThrows \/ WriteHistoryDone
  \/ PlayerUnmount

SpecResolve == InitResolve /\ [][NextResolve]_vars

\* records the provider can find when it mounts: none, one that a
\* navigation re-saved (no gesture flag), one that a click on the PiP button
\* left, and one that has expired
SavedRecord(opts, ts) ==
  StateObj(cleanChannel(pipChannelInfo(LoadedChannel, DirectUrl)), Str(Join(DirectUrl)),
           opts, Num(ts), Str(PIP_VERSION))
PipStoredItems ==
  {NoItem,
   SavedRecord(NoOptions, Now0 - Minute),
   SavedRecord([NoOptions EXCEPT !.fromUserGesture = "true", !.pendingPiP = "false"],
               Now0 - Minute),
   SavedRecord(NoOptions, Now0 - PIP_EXPIRY_TIME - Minute)}

\* the provider after its mount effects: restorePipState has run
InitProvider ==
  /\ pipVideo = NoVideo
  /\ pipChannel = NullChan
  /\ pipError = NoPipError
  /\ isSwitchingPip = FALSE
  /\ currentStreamUrl = JNull
  /\ pipHlsRef = 0
  /\ pipVideoRef = NoVideo
  /\ scope = 0
  /\ capPipVideo = NoVideo
  /\ pips = <<>>
  /\ waiters = {}
  /\ leaveEvents = {}
  /\ leaveTimers = {}
  /\ switchTimers = 0
  /\ clicks = [button |-> 0, overlay |-> 0]
  /\ pipElement = NoVideo
  /\ exitReq = {}
  /\ now = Now0 /\ ticks = 0
  /\ pipSupported \in BOOLEAN
  /\ \E item \in PipStoredItems :
       LET r == loadPipState(item, Now0) IN
       IF pipSupported
         THEN /\ storage = r.after
              /\ lastCall = NoCall
              /\ restoreTimer = r.result
              /\ pipStatus = IF r.result # NoItem THEN "restoring" ELSE "inactive"
         ELSE /\ storage = item
              /\ lastCall = NoCall
              /\ restoreTimer = NoItem
              /\ pipStatus = "inactive"

\* the provider next to a player that has loaded its stream
InitPip ==
  /\ InitProvider
  /\ platform \in Platforms /\ routes = {DirectUrl}
  /\ videoRef = PlayerVideo
  /\ InitClassifier
  /\ CASE platform = "hls" -> LoadedSession
       [] platform = "native" -> LoadedNativeSession
       [] OTHER -> UnsupportedSession

NextPip ==
  \/ RestoreTimerFires \/ HandlePictureInPicture \/ EnterPiPResumes
  \/ SwitchTimerFires
  \/ PipManifestParsed \/ PipPlaySettles \/ PipRequestSettles
  \/ PipEngineError \/ PipSafetyTimer
  \/ LeavePiP \/ LeaveTimerFires \/ BrowserExitsPip \/ UserClosesPip
  \/ PlayerUnmount

SpecPip == InitPip /\ [][NextPip]_vars

\* the manager with every 10 s timer running out, also the timers of videos
\* that have initialised or are not the current video any more
NextSafety == NextPip \/ PipSafetyTimerLate

SpecSafety == InitPip /\ [][NextSafety]_vars

\* the same with a user who also clicks on the overlay, on a page that
\* found a re-saved record or none
InitOverlay ==
  /\ InitPip
  /\ pipSupported /\ platform = "hls"
  /\ restoreTimer = NoItem \/ restoreTimer.options = NoOptions

NextOverlay ==
  \/ RestoreTimerFires \/ HandlePictureInPicture \/ EnterPiPResumes
  \/ ExitPiP \/ ExitPiPResumes \/ SwitchTimerFires
  \/ PipManifestParsed \/ PipPlaySettles \/ PipRequestSettles
  \/ PipEngineError \/ PipSafetyTimer
  \/ LeavePiP \/ LeaveTimerFires \/ BrowserExitsPip \/ UserClosesPip
  \/ ActivatePendingPiP \/ ActivateSettles
  \/ PlayerUnmount

SpecOverlay == InitOverlay /\ [][NextOverlay]_vars

\* the provider with the overlay, mounted on a record that a click on the
\* PiP button left
InitClose ==
  /\ InitPip
  /\ pipSupported /\ platform = "hls"
  /\ restoreTimer # NoItem
  /\ restoreTimer.options.fromUserGesture = "true"

\* entering, leaving and closing, without engine errors and activation
NextClose ==
  \/ RestoreTimerFires \/ HandlePictureInPicture \/ EnterPiPResumes
  \/ ExitPiP \/ ExitPiPResumes \/ SwitchTimerFires
  \/ PipManifestParsed \/ PipPlaySettles \/ PipRequestSettles
  \/ LeavePiP \/ LeaveTimerFires \/ BrowserExitsPip \/ UserClosesPip

SpecClose == InitClose /\ [][NextClose]_vars

\* the manager while the document is hidden and shown
NextHidden == NextClose \/ HandleVisibilityChange \/ ReacquireSettles

SpecHidden == InitClose /\ [][NextHidden]_vars

\* every promise settles, every timer fires and every event is delivered;
\* what the user does stays open
ManagerSettles ==
  /\ WF_vars(RestoreTimerFires) /\ WF_vars(EnterPiPResumes) /\ WF_vars(ExitPiPResumes)
  /\ WF_vars(SwitchTimerFires) /\ WF_vars(PipManifestParsed) /\ WF_vars(PipPlaySettles)
  /\ WF_vars(PipRequestSettles) /\ WF_vars(LeavePiP) /\ WF_vars(LeaveTimerFires)
  /\ WF_vars(BrowserExitsPip) /\ WF_vars(ReacquireSettles)

\* one session entered with a click on the PiP button, while the document
\* is hidden and shown
NextClickedHidden ==
  \/ HandlePictureInPicture \/ SwitchTimerFires
  \/ PipManifestParsed \/ PipPlaySettles \/ PipRequestSettles
  \/ LeavePiP \/ LeaveTimerFires \/ BrowserExitsPip \/ UserClosesPip
  \/ HandleVisibilityChange \/ ReacquireSettles

InitClickedHidden ==
  InitPip /\ pipSupported /\ platform = "hls" /\ restoreTimer = NoItem

SpecHiddenSettles == InitClickedHidden /\ [][NextClickedHidden]_vars /\ ManagerSettles


(***************************************************************************)
(* Claims about the Picture-in-Picture manager                             *)
(***************************************************************************)
\* the manager's off-screen video holds the browser's Picture-in-Picture handle
PipActive == pipElement # NoVideo /\ pipElement = pipVideoRef
PlayerUnmounts == phase = "mounted" /\ phase' = "unmounted"

\* C1: while the PiP session is Active, unmounting the player leaves it
\* Active: the unmount asks for no release of the handle and tears down
\* neither the session's engine and video nor the persisted record, and the
\* browser does not release the handle on the player's behalf.
C1_PipSurvivesPlayerUnmount ==
  /\ [][(PipActive /\ PlayerUnmounts) =>
          (PipActive' /\ exitReq' = exitReq /\ pips' = pips /\ storage' = storage)]_vars
  /\ [][(PipActive /\ exitReq = {"player"} /\ exitReq' = {}) => PipActive']_vars

LivePips(ps) == {k \in 1..Len(ps) : ps[k].engine = "live"}
PipsInDom(ps) == {k \in 1..Len(ps) : ps[k].inDom}

\* C2: when an enterPiP call carrying the user-gesture flag creates its
\* video and engine, every earlier engine has been destroyed and every earlier
\* off-screen video removed, so that at most the new engine and exactly the
\* new video exist.
C2_EarlierSessionTornDownFirst ==
  [][Len(pips') > Len(pips) =>
       /\ LivePips(pips') \subseteq {Len(pips')}
       /\ PipsInDom(pips') \subseteq {Len(pips')}]_vars

NoGestureEnter ==
  RestoreTimerFires /\ restoreTimer.options.fromUserGesture # "true"
NothingCreated ==
  /\ pips' = pips /\ waiters' = waiters
  /\ pipHlsRef' = pipHlsRef /\ pipVideoRef' = pipVideoRef
  /\ pipElement' = pipElement
PendingRecord(item) == item.kind = "object" /\ item.options.pendingPiP = "true"

\* C4 as stated: an enterPiP call without the user-gesture flag leaves the
\* status pending and a persisted record with pendingPiP = true, and creates
\* no video, no engine and no requestPictureInPicture call.
C4_NoGestureLeavesPendingRecord ==
  [][NoGestureEnter =>
       (pipStatus' = "pending" /\ PendingRecord(storage') /\ NothingCreated)]_vars

\* C4, amended: an enterPiP call without the user-gesture flag leaves the
\* status pending and creates no video, no engine and no
\* requestPictureInPicture call; it leaves a persisted record with
\* pendingPiP = true when the write to session storage succeeds, and no
\* record at all when the write fails.
C4_NoGestureLeavesPendingRecordIfWritten ==
  [][NoGestureEnter =>
       /\ pipStatus' = "pending" /\ pipError' = "Click to activate PiP"
       /\ NothingCreated
       /\ lastCall'.op = "save"
       /\ IF lastCall'.ok THEN PendingRecord(storage') ELSE storage' = NoItem]_vars
C4_Witness ==
  /\ pipStatus = "pending"
  /\ lastCall.op = "save" /\ lastCall.ok
  /\ PendingRecord(storage)
  /\ storage.options.fromUserGesture = "undef"
  /\ pips = <<>> /\ pipElement = NoVideo /\ restoreTimer = NoItem

(***************************************************************************)
(* Claims about the persisted record                                       *)
(***************************************************************************)
HasStringName(rec) ==
  /\ rec.kind = "object"
  /\ rec.channel.t = "obj"
  /\ rec.channel.name.t = "str"
HasLongUrl(rec) ==
  /\ rec.kind = "object"
  /\ rec.streamUrl.t = "str"
  /\ Len(rec.streamUrl.s) > 5
WellFormedRecord(rec) ==
  /\ HasStringName(rec)
  /\ HasLongUrl(rec)
  /\ rec.timestamp.t = "num"
LoadedAge == lastCall.at - lastCall.before.timestamp.n

\* C5: for a structurally valid stored record, loadPipState returns null
\* exactly when the record is more than 30 minutes old, and then the record
\* is gone from storage; a record no older than 30 minutes is returned.
C5_ExpiredIffOlderThan30Min ==
  (lastCall.op = "load" /\ WellFormedRecord(lastCall.before)) =>
    /\ (lastCall.result = NoItem) <=> (LoadedAge > 30 * 60 * 1000)
    /\ (LoadedAge > 30 * 60 * 1000) => storage = NoItem
    /\ (LoadedAge <= 30 * 60 * 1000) => lastCall.result = lastCall.before

C5_Witness ==
  /\ lastCall.op = "load"
  /\ WellFormedRecord(lastCall.before)
  /\ LoadedAge = 31 * 60 * 1000
  /\ lastCall.result = NoItem
  /\ storage = NoItem

\* C6: a stored record without a string channel.name, or whose streamUrl is
\* not a string longer than 5 characters, makes loadPipState return null and
\* is deleted from storage.
C6_InvalidRecordDiscarded ==
  (/\ lastCall.op = "load"
   /\ lastCall.before.kind # "none"
   /\ (~HasStringName(lastCall.before) \/ ~HasLongUrl(lastCall.before))) =>
    /\ lastCall.result = NoItem
    /\ storage = NoItem

C6_Witness ==
  /\ lastCall.op = "load"
  /\ HasStringName(lastCall.before)
  /\ lastCall.before.streamUrl = Str("abcde")
  /\ lastCall.before.timestamp = Num(lastCall.at - 60 * 1000)
  /\ lastCall.result = NoItem
  /\ storage = NoItem

\* C19: a stored record whose version field is missing or is not '1.0'
\* makes loadPipState return null and is discarded from storage.
C19_OtherVersionDiscarded ==
  (/\ lastCall.op = "load"
   /\ lastCall.before.kind = "object"
   /\ lastCall.before.version # Str(PIP_VERSION)) =>
    /\ lastCall.result = NoItem
    /\ storage = NoItem

\* a savePipState call that got as far as writing, and whose write threw
WriteFailed ==
  /\ lastCall.op = "save"
  /\ lastCall.channel.t = "obj" /\ Truthy(lastCall.streamUrl)
  /\ ~lastCall.ok

\* C20: a savePipState whose write fails returns false and leaves no
\* partial or corrupt record: storage is empty or holds a complete record,
\* and the following loadPipState returns null or a structurally valid record.
C20_FailedWriteLeavesNoPartialRecord ==
  WriteFailed =>
    /\ storage = NoItem \/ WellFormedRecord(storage)
    /\ LET r == loadPipState(storage, now) IN
       /\ r.result = NoItem \/ WellFormedRecord(r.result)
       /\ r.after = NoItem \/ WellFormedRecord(r.after)

C20_Witness == WriteFailed /\ storage = NoItem /\ lastCall.after = NoItem

(***************************************************************************)
(* Claims about the player's engine and its retry counter                  *)
(***************************************************************************)
LiveEngines == {e \in 1..Len(engines) : engines[e].state = "live"}

\* C3: in every reachable state of the player, whatever the interleaving of
\* opens, lookups, channel-detail completions, engine events and unmount, at
\* most one engine that was created and not destroyed is bound to the
\* player's video: the one hlsRef holds, and only while the video exists.
C3_AtMostOneLiveEngine ==
  /\ Cardinality(LiveEngines) <= 1
  /\ LiveEngines # {} => (LiveEngines = {hlsRef} /\ videoRef # NoVideo)

\* a second engine replaced the first one after an id change
C3_Witness ==
  /\ Len(engines) = 2
  /\ engines[1].state = "destroyed"
  /\ engines[2].state = "live"
  /\ engines[1].open # engines[2].open
  /\ hlsRef = 2

MaxRetriesMessage == Msg("Stream failed after multiple attempts. Please try again later.")

\* C7: the manual retry counter never exceeds 3; a retry requested when 3
\* have been made leaves the counter and loading as they are and leaves the
\* session in error with the 'failed after multiple attempts' message.
C7_RetryCappedAtThree ==
  /\ [](retryCount <= 3)
  /\ [][(RetryStream /\ retryCount >= 3) =>
          /\ retryCount' = retryCount
          /\ loading' = loading
          /\ error' = MaxRetriesMessage]_vars

\* the fourth request has been made and refused
C7_Witness ==
  /\ retryCount = 3
  /\ error = MaxRetriesMessage
  /\ ~loading

(***************************************************************************)
(* Claims about resolving a channel reference                              *)
(***************************************************************************)
\* a URL whose path ends in .m3u8, .m3u or .ts
IsDirectReference(ref) ==
  /\ ParsesAsUrl(ref)
  /\ pathname(ref) # <<>>
  /\ toLowerCase(pathname(ref)[Len(pathname(ref))]) \in {".m3u8", ".m3u", ".ts"}

\* C9: for a reference that is a direct stream URL, resolving uses that URL
\* unchanged as the stream URL, calls neither getChannelDetails nor
\* findChannel, and produces no channel metadata.
C9_DirectUrlSkipsDirectory ==
  \A k \in 1..Len(opens) :
    IsDirectReference(opens[k].ref) =>
      /\ opens[k].apiCalls = 0
      /\ opens[k].pc \notin {"details", "find"}
      /\ opens[k].url = opens[k].ref
      /\ opens[k].channelData = NoData

\* an upper-case .TS URL went straight to an engine
C9_Witness ==
  \E k \in 1..Len(opens) :
    /\ opens[k].ref = UpperTsUrl
    /\ opens[k].pc = "done"
    /\ opens[k].apiCalls = 0
    /\ \E e \in 1..Len(engines) : engines[e].open = k /\ engines[e].url = UpperTsUrl

\* the directory was asked for run o and its last answer had no stream URL
DirectoryGaveNoUrl(o) ==
  /\ o.apiCalls > 0
  /\ o.pc \notin {"details", "find"}
  /\ o.channelData.url = NoRef

\* C10: when the directory yields no stream URL for a non-direct reference,
\* the step that learns it sets an error and stops loading, the run ends
\* there, and no engine is ever created for that reference.
C10_NoUrlEndsInError ==
  /\ [](\A k \in 1..Len(opens) :
          DirectoryGaveNoUrl(opens[k]) =>
            /\ opens[k].pc = "done"
            /\ opens[k].url = NoRef
            /\ \A e \in 1..Len(engines) : engines[e].open # k)
  /\ [][\A k \in 1..Len(opens) :
          (~DirectoryGaveNoUrl(opens[k]) /\ DirectoryGaveNoUrl(opens'[k])) =>
            (error' # NoError /\ loading' = FALSE)]_vars

\* both lookups found nothing for a channel name, on a page that had an
\* engine running for an earlier reference
C10_Witness ==
  \E k \in 1..Len(opens) :
    /\ opens[k].ref = ChannelName
    /\ opens[k].apiCalls = 2
    /\ DirectoryGaveNoUrl(opens[k])
    /\ error = Msg("Channel found but no stream URL available")
    /\ ~loading
    /\ Len(engines) = 1

(***************************************************************************)
(* Claims about the live / VOD classification                              *)
(***************************************************************************)
\* live detection marked complete with a decision: live (no timeline) or
\* seekable (timeline)
TerminalClassification ==
  /\ liveDetectionComplete
  /\ (isLive /\ ~showTimeline) \/ (~isLive /\ showTimeline)

\* C8: once the classification is terminal, no later sample (timeupdate,
\* durationchange, the periodic check) changes isLive or showTimeline.
C8_TerminalClassificationIsStable ==
  [][TerminalClassification => (isLive' = isLive /\ showTimeline' = showTimeline)]_vars

(***************************************************************************)
(* Claims about the initialization watchdog                                *)
(***************************************************************************)
TimeoutMessage(forId) == handleInvalidStream("Stream timed out after 25 seconds", forId)

\* the engine that run k of the effect set up has parsed its manifest and is
\* the one the player holds
ReachedManifestParsed(k) ==
  /\ HasLiveEngine
  /\ engines[hlsRef].open = k
  /\ engines[hlsRef].parsed
  /\ streamLoaded

\* the 25 s timer of run k expires in this step
WatchdogExpires(k) ==
  /\ WatchdogFires
  /\ opens[k].timer = "armed"
  /\ opens'[k].timer = "off"

\* C12: the 25 s watchdog never puts a session that reached manifestParsed
\* before the timer expired into the timeout error: when the timer of such
\* a session expires, error and loading stay as they are.
C12_WatchdogSparesParsedSession ==
  [][\A k \in 1..Len(opens) :
       (WatchdogExpires(k) /\ ReachedManifestParsed(k)) =>
         (error' = error /\ loading' = loading)]_vars

(***************************************************************************)
(* Claims about overlapping opens                                          *)
(***************************************************************************)
\* a continuation of run k of the effect (a lookup, a history or favorites
\* read, the history write with the engine setup) runs in this step
ContinuationOf(k) == opens'[k].pc # opens[k].pc

\* C11: once a newer channel reference has been opened, no continuation of
\* an earlier open that arrives late changes the session's channel, stream
\* URL, error or loading status, or its engine binding.
C11_LateContinuationChangesNothing ==
  [][\A k \in 1..Len(opens) :
       (k < Len(opens) /\ ContinuationOf(k)) =>
         /\ channel' = channel
         /\ streamUrl' = streamUrl
         /\ error' = error
         /\ loading' = loading
         /\ hlsRef' = hlsRef
         /\ engines' = engines]_vars

(***************************************************************************)
(* Claims about the engine in a terminal error                             *)
(***************************************************************************)
\* the errors handleInvalidStream sets: the watchdog's timeout, a failed
\* recovery from a media error, any other fatal engine error
TerminalError(e) ==
  \E reason \in {"Stream timed out after 25 seconds",
                 "Failed to recover from media error",
                 "Failed to restart stream after network error",
                 "Fatal streaming error"} :
    \E forId \in routes : e = handleInvalidStream(reason, forId)

\* C13: whenever the player's session enters a terminal error, no engine
\* that was created and not destroyed is bound to the player's video in
\* the resulting state.
C13_TerminalErrorLeavesNoEngine ==
  [][((EngineError \/ WatchdogFires) /\ error' # error /\ TerminalError(error')) =>
       ~HasLiveEngine']_vars

(***************************************************************************)
(* Claims about fatal engine errors                                        *)
(***************************************************************************)
\* a fatal network error with an unreachable-host signal, whose reload does
\* not throw
UnreachableHost(d) ==
  /\ d.type = "networkError"
  /\ d.fatal
  /\ d.unreachable
  /\ ~d.throws

ServerUnreachableError(e) ==
  \E forId \in routes : e = handleInvalidStream(ServerUnreachable, forId)

\* C16: a fatal network error with an unreachable-host signal puts the
\* session into the 'server unreachable' error when at least one retry has
\* been made in the session; with no retry made it sets no error (the
\* engine is told to reload instead).
C16_UnreachableHostFatalAfterRetry ==
  [][\A d \in ErrorEvents :
       (EngineErrorWith(d) /\ UnreachableHost(d)) =>
         IF retryCount > 0
           THEN ServerUnreachableError(error') /\ loading' = FALSE
           ELSE error' = error]_vars

\* C17: the first fatal media error of a session makes the engine attempt
\* one decoder recovery and sets no error; a later fatal media error of the
\* same session puts the session into error and attempts no recovery.
C17_OneMediaRecoveryPerSession ==
  [][\A d \in ErrorEvents :
       (EngineErrorWith(d) /\ CallsRecovery(d) /\ ~d.throws) =>
         IF engines[hlsRef].recoveries = 0
           THEN /\ engines'[hlsRef].recoveries = 1
                /\ error' = error
           ELSE /\ engines'[hlsRef].recoveries = engines[hlsRef].recoveries
                /\ error' # NoError]_vars

(***************************************************************************)
(* Claims about the quality choices                                        *)
(***************************************************************************)
\* C18: when the engine reports manifestParsed with two levels, the quality
\* choices after 'auto' are "0" and "1", in this order, and the selected
\* quality is "auto", whatever the state of the player was before.
C18_TwoLevelsExposeAutoSelected ==
  [][(ManifestParsed /\ manifestLevels = 2) =>
       /\ qualities' = <<"0", "1">>
       /\ currentQuality' = "auto"]_vars

(***************************************************************************)
(* Claims about a Picture-in-Picture request without a user gesture        *)
(***************************************************************************)
\* C14: when the muted play of the PiP video has succeeded and the browser
\* rejects requestPictureInPicture with NotAllowedError, on the engine path
\* or the native path, the manager keeps the video and its engine, enters
\* the needsActivation status and not error, and the persisted record
\* carries needsActivation = true.
C14_RejectedRequestNeedsActivation ==
  [][\A k \in 1..Len(pips) :
       PipRequestSettlesWith(k, "NotAllowedError") =>
         /\ pipStatus' = "needsActivation"
         /\ pipVideo' = PipVideo(k)
         /\ pipVideoRef' = pipVideoRef
         /\ pipHlsRef' = pipHlsRef
         /\ pips'[k].inDom = pips[k].inDom
         /\ pips'[k].engine = pips[k].engine
         /\ storage' # NoItem
         /\ storage'.options.needsActivation = "true"]_vars

(***************************************************************************)
(* Claims about closing the Picture-in-Picture session                     *)
(***************************************************************************)
\* the engine of a video is released before the video leaves the document
EngineBeforeVideo ==
  \A k \in 1..Len(pips) : ~pips[k].inDom => pips[k].engine # "live"

\* a step that ends in Inactive has released the engine and the video the
\* manager held, and leaves no record
RecordLast ==
  (pipStatus # "inactive" /\ pipStatus' = "inactive") =>
    /\ pipHlsRef' = 0
    /\ pipHlsRef # 0 => pips'[pipHlsRef].engine = "destroyed"
    /\ pipVideoRef # NoVideo => ~pips'[pipVideoRef.n].inDom
    /\ storage' = NoItem

\* the manager holds no video and no engine
PipClosed == pipVideoRef = NoVideo /\ pipHlsRef = 0

\* a close of a closed session (exitPipInternal from exitPiP, the cleanup
\* the leavepictureinpicture timer runs, the forced cleanup of the
\* provider's unmount) destroys nothing and ends Inactive with no record
SecondCloseDestroysNothing ==
  PipClosed =>
    /\ LET h == exitPipInternalHead([Mgr EXCEPT !.isSwitchingPip = TRUE,
                                                !.pipStatus = "closing"], 0)
           m == exitPipInternalTail(h.m)
       IN ~h.awaits /\ m.pips = pips /\ m.pipStatus = "inactive" /\ m.storage = NoItem
    /\ \A g \in 0..scope, force \in BOOLEAN :
         LET m == cleanupPipResources(Mgr, g, force)
         IN /\ m.pips = pips
            /\ m.exitReq = exitReq
            /\ m = Mgr \/ (m.pipStatus = "inactive" /\ m.storage = NoItem)

\* when the close that exitPiP started completes, every video whose
\* listeners a close has detached is out of the document and its engine is
\* not running
CloseReleasesSession ==
  ExitPiPResumes =>
    \A k \in 1..Len(pips) :
      (~pips[k].errL /\ pips[k].inDom) =>
        (pips'[k].engine # "live" /\ ~pips'[k].inDom)

\* C15: closing the PiP session releases its engine, then its off-screen
\* video, then the persisted record, so that nothing of the session is left
\* when the close completes, and a second close of a closed session destroys
\* nothing and leaves Inactive with no record.
C15_CloseReleasesInOrder ==
  /\ [](EngineBeforeVideo /\ SecondCloseDestroysNothing)
  /\ [][RecordLast /\ CloseReleasesSession]_vars

(***************************************************************************)
(* Claims about leavepictureinpicture                                      *)
(***************************************************************************)
\* the queued leavepictureinpicture event of video k is delivered
LeaveEventOn(k) == LeavePiP /\ k \in leaveEvents /\ k \notin leaveEvents'

\* C21: a leavepictureinpicture event on the manager's current video
\* schedules the teardown (status closing, the debounce timer) exactly when
\* the manager is not switching, and while the manager is switching neither
\* the event nor a debounce timer tears anything down.
C21_LeaveTearsDownIffNotSwitching ==
  /\ [][\A k \in 1..Len(pips) :
          (LeaveEventOn(k) /\ pipVideoRef = PipVideo(k)) =>
            IF isSwitchingPip
              THEN pipStatus' = pipStatus /\ leaveTimers' = leaveTimers
              ELSE pipStatus' = "closing" /\ leaveTimers' # leaveTimers]_vars
  /\ [][(LeaveTimerFires /\ isSwitchingPip) =>
          (pips' = pips /\ pipVideoRef' = pipVideoRef /\ storage' = storage)]_vars

\* ---------------------------------------------------------------------------
\* Claims about the metadata enrichment

\* C30: the enrichment that completes never changes the id of the channel of
\* the session: after it the channel id is the one the state held before it,
\* whatever channel was opened while the enrichment was in flight
C30_EnrichmentKeepsChannelId ==
  [][FetchMetadataDone => channel'.id = channel.id]_vars

\* ---------------------------------------------------------------------------
\* Claims about the engine of the reference opened before

\* the reference of open k is being resolved by the directory lookups
Resolving(k) == opens[k].pc \in {"details", "find"}

\* the resolution of open k has ended without a stream URL
ResolutionFailed(k) == opens[k].pc = "done" /\ opens[k].url = NoRef

\* the engine bound to the player was set up for a reference opened before k
OlderEngineBound(k) ==
  /\ hlsRef # 0
  /\ engines[hlsRef].state = "live"
  /\ engines[hlsRef].open < k

\* C22: while the reference opened last is being resolved, and after its
\* resolution has failed, the engine of a reference opened before it is not
\* bound to the player any more: it was destroyed before resolution began
C22_OldEngineGoneBeforeResolution ==
  \A k \in 1..Len(opens) :
    (k = Len(opens) /\ (Resolving(k) \/ ResolutionFailed(k))) => ~OlderEngineBound(k)

\* ---------------------------------------------------------------------------
\* Claims about network errors during the initial load

\* a fatal error of the network category
FatalNetworkError(data) == data.fatal /\ data.type = "networkError"

\* C25: a fatal network error on an engine whose manifest is not parsed yet
\* leaves the error, the loading state and the retry counter of the session
\* as they were
C25_NetworkErrorWhileLoadingOnlyReloads ==
  [][\A data \in ErrorEvents :
       (EngineErrorWith(data) /\ FatalNetworkError(data) /\ ~engines[hlsRef].parsed) =>
         (error' = error /\ loading' = loading /\ retryCount' = retryCount)]_vars

\* ---------------------------------------------------------------------------
\* Claims about engine errors that are not fatal

\* C26: an engine error reported with fatal = false leaves the error and the
\* loading state of the session as they were
C26_NonFatalErrorNotSurfaced ==
  [][\A data \in ErrorEvents :
       (EngineErrorWith(data) /\ ~data.fatal) =>
         (error' = error /\ loading' = loading)]_vars

\* ---------------------------------------------------------------------------
\* Claims about the play attempt on manifestParsed

\* the PiP video k gets its play() call: MANIFEST_PARSED or loadedmetadata
PipPlayAttemptOn(k) ==
  /\ PipManifestParsed
  /\ pips[k].stage = "loading"
  /\ pips'[k].stage = "playing"

\* C27: the video of the PiP manager is muted when play() is called on it on
\* manifestParsed, whatever options enterPiP was given
C27_PlayAttemptIsMuted ==
  [][\A k \in 1..Len(pips) : PipPlayAttemptOn(k) => pips'[k].muted]_vars

\* ---------------------------------------------------------------------------
\* Claims about the order of the directory lookups

\* one of the two lookups, asked for the reference of the last call, gives a
\* channel with a stream URL
SomeLookupHasUrl ==
  \/ getChannelDetails(lastCall.channelId, lastCall.directory).url # NoRef
  \/ findChannel(lastCall.channelId, lastCall.directory).url # NoRef

\* C28: resolution does not end without a stream URL while one of the
\* lookups gives a channel that has one, and the URL it returns is that of
\* the first lookup in the order getChannelDetails, findChannel that has one
C28_FirstLookupWithUrlWins ==
  lastCall.op = "resolve" =>
    LET details == getChannelDetails(lastCall.channelId, lastCall.directory)
        found == findChannel(lastCall.channelId, lastCall.directory)
    IN /\ SomeLookupHasUrl => lastCall.finalStreamUrl # NoRef
       /\ details.url # NoRef => lastCall.finalStreamUrl = details.url
       /\ (details.url = NoRef /\ found.url # NoRef) =>
            lastCall.finalStreamUrl = found.url

\* ---------------------------------------------------------------------------
\* Claims about the 10 s timer of the PiP manager

\* video k is the current one and has not reached manifestParsed
StillInitialising(k) == ~pips[k].initSuccess /\ pipVideoRef = PipVideo(k)

\* the manager and its videos are as before, but for the timer of video k
OnlyTimerGone(k) ==
  /\ pips' = [pips EXCEPT ![k] = [@ EXCEPT !.safety = "off"]]
  /\ pipStatus' = pipStatus /\ pipError' = pipError
  /\ pipVideoRef' = pipVideoRef /\ pipHlsRef' = pipHlsRef
  /\ pipVideo' = pipVideo /\ pipChannel' = pipChannel
  /\ currentStreamUrl' = currentStreamUrl
  /\ storage' = storage /\ exitReq' = exitReq

\* C29: the 10 s timer of a video gives up with 'Stream initialization timed
\* out' only when that video is still the current one and has not reached
\* manifestParsed; the timer of a video that has reached it, that was closed
\* or that a later enterPiP has replaced changes nothing
C29_SafetyTimerOnlyForCurrentSession ==
  [][\A k \in 1..Len(pips) :
       SafetyTimerFiresOn(k) =>
         IF StillInitialising(k)
           THEN pipError' = "Stream initialization timed out"
           ELSE OnlyTimerGone(k)]_vars

\* the timer of a video has run out after the video reached manifestParsed,
\* and the video is still the current one
C29_Witness ==
  \E k \in 1..Len(pips) :
    /\ pips[k].safety = "off"
    /\ pips[k].initSuccess
    /\ pipVideoRef = PipVideo(k)
    /\ ~capturedSwitching(pips[k].scope)

\* ---------------------------------------------------------------------------
\* Claims about the hidden document

\* video k is in the document and its engine is running: it can be playing
VideoStillThere(k) == pips[k].inDom /\ pips[k].engine = "live"

\* C24: when the document is hidden while the manager holds a PiP video and
\* the browser has no Picture-in-Picture element, the status becomes
\* reactivating; when the request made then is rejected, the status becomes
\* active if the video can still be playing and inactive if not
C24_FailedReacquireStatus ==
  /\ [][HandleVisibilityChange => pipStatus' = "reactivating"]_vars
  /\ [][\A k \in 1..Len(pips) :
         ReacquireSettlesWith(k, "rejected") =>
           pipStatus' = IF VideoStillThere(k) THEN "active" ELSE "inactive"]_vars

\* ---------------------------------------------------------------------------
\* Claims about the restore on mount

\* the provider is as it mounted: no enterPiP call has run yet
BeforeRestore ==
  /\ pips = <<>>
  /\ clicks.button = 0
  /\ pipStatus \in {"inactive", "restoring"}

\* a stored record that is well formed and not older than the expiry time
ValidRecord(item) ==
  /\ item.kind = "object"
  /\ isValidPipState(item)
  /\ ~isExpired(item, now)

\* the last video enterPiP created carries the record r
SetUpFrom(r) ==
  /\ Len(pips') = Len(pips) + 1
  /\ pips'[Len(pips')].chan = r.channel
  /\ pips'[Len(pips')].url = r.streamUrl
  /\ pips'[Len(pips')].opts = r.options

\* an enterPiP with the record r waits for the browser to leave
\* Picture-in-Picture before it sets its video up
WaitsToSetUp(r) ==
  \E w \in waiters' \ waiters :
    w.kind = "enter" /\ w.chan = r.channel /\ w.url = r.streamUrl /\ w.opts = r.options

\* enterPiP has run with the record r: set up with the user-gesture flag,
\* pending without it
Reenters(r) ==
  IF r.options.fromUserGesture = "true"
    THEN SetUpFrom(r) \/ WaitsToSetUp(r)
    ELSE pipStatus' = "pending" /\ pipChannel' = r.channel /\ pips' = pips

SampleTaken(ct, rs) ==
  rs >= ReadyForCheck /\ ct > 0 /\ IsFinite(vDuration) /\ vDuration.n > 0

\* C31: the interval sets the session live only when five or more samples
\* before it were counted near the end; a sample taken three seconds or more
\* from the end sets the count to zero; opening another channel sets the
\* count to zero
C31_FiveConsecutiveEndSamples ==
  /\ [][(CheckStreamType /\ ~isLive /\ isLive') => liveChecks >= LiveChecksNeeded]_vars
  /\ [](\A ct \in Positions, rs \in ReadyStates, sw \in SeekableWidths :
         (SampleTaken(ct, rs) /\ vDuration.n - ct >= EndWindow) =>
           ~ENABLED (CheckStreamTypeWith(ct, rs, sw) /\ liveChecks' # 0))
  /\ [][ChangeId => liveChecks' = 0]_vars

\* play() of video k is rejected
PlayRejected(k) ==
  PipPlaySettles /\ pips[k].stage = "playing" /\ pips'[k].stage = "settled"

\* the terminal conditions of the chain: the initialization timeout, a
\* rejected play(), a rejected request that is not the missing gesture
PipTerminalCondition ==
  \/ PipSafetyTimer
  \/ \E k \in 1..Len(pips) :
       PlayRejected(k) \/ PipRequestSettlesWith(k, "InvalidStateError")

\* C32: after a terminal condition of the PiP manager the status is error
\* and the error message is set
C32_TerminalConditionEndsInError ==
  [][PipTerminalCondition => (pipStatus' = "error" /\ pipError' # NoPipError)]_vars

\* video k was made by an enterPiP that ran while the 100 ms timer g of an
\* earlier leavepictureinpicture was running
StartedBeforeTimerFired(k, g) == g \in pips[k].pendingLeave

\* C33: the teardown scheduled by a leavepictureinpicture event does not
\* destroy the engine, the video or the persisted record of a session that
\* enterPiP started between the event and the firing of the timer
C33_ScheduledTeardownSparesNewSession ==
  [][\A g \in leaveTimers : \A k \in 1..Len(pips) :
       (LeaveTimerFiresOf(g) /\ StartedBeforeTimerFired(k, g)) =>
         /\ pips'[k].inDom = pips[k].inDom
         /\ pips'[k].engine = pips[k].engine
         /\ pipVideoRef = PipVideo(k) => storage' = storage]_vars

\* the play() promise or the requestPictureInPicture() promise of video k
\* settles when the manager no longer holds k: it was closed or another
\* session took its place
LateContinuation(k) ==
  /\ pipVideoRef # PipVideo(k)
  /\ \/ PipPlaySettles /\ pips[k].stage = "playing" /\ pips'[k].stage # "playing"
     \/ \E outcome \in RequestOutcomes : PipRequestSettlesWith(k, outcome)

\* C34: a continuation of a closed or superseded PiP session changes neither
\* status, error, video reference nor persisted record, and tears down
\* nothing of the current session
C34_LateContinuationOfPipChangesNothing ==
  [][\A k \in 1..Len(pips) :
       LateContinuation(k) =>
         /\ pipStatus' = pipStatus /\ pipError' = pipError
         /\ pipVideo' = pipVideo /\ pipVideoRef' = pipVideoRef
         /\ pipHlsRef' = pipHlsRef /\ storage' = storage
         /\ \A j \in 1..Len(pips) : j # k => pips'[j] = pips[j]]_vars

\* retryStream runs with fewer than MAX_RETRIES retries made
RetryAccepted == RetryStream /\ retryCount' = retryCount + 1

\* a load begins: a run of resolveAndLoadStream, an engine, or a source on
\* the video
LoadBegins ==
  Len(opens') > Len(opens) \/ Len(engines') > Len(engines) \/ videoSrc' # videoSrc

RetriedAndLoading == phase = "mounted" /\ retryCount > 0 /\ loading

\* C35: an accepted manual retry begins a load of the session's stream, and
\* the session then leaves the loading state
C35_AcceptedRetryReloads ==
  /\ [][RetryAccepted => LoadBegins]_vars
  /\ RetriedAndLoading ~> ~RetriedAndLoading

\* C36: opening another channel reference in the mounted player leaves the
\* retry counter at 0, the stream-loaded flag false and the live / seekable
\* classification not terminal
C36_NewChannelStartsFresh ==
  [][ChangeId => (retryCount' = 0 /\ ~streamLoaded' /\ ~TerminalClassification')]_vars

\* C37: the status reactivating is always left again
C37_ReactivatingIsLeft ==
  (pipStatus = "reactivating") ~> (pipStatus # "reactivating")

\* loadPipState() is the call right after a savePipState() that returned
\* true: no write, no clear and no passing of time lies between them
LoadRightAfterSave ==
  LoadPipState /\ lastCall.op = "save" /\ lastCall.ok /\ lastCall.at = now

\* C38: a loadPipState() right after a savePipState() that returned true
\* returns a record with the saved stream URL, the channel name as saved
\* (the default name for a channel without one) and the options
C38_SaveLoadRoundTrip ==
  [][LoadRightAfterSave =>
       /\ lastCall'.result # NoItem
       /\ lastCall'.result.streamUrl = lastCall.streamUrl
       /\ lastCall'.result.channel.name = cleanChannel(lastCall.channel).name
       /\ lastCall'.result.options = lastCall.options]_vars

\* C39: when set(key, v) has resolved true, the get(key) that follows
\* returns v
C39_ReadYourWrites ==
  (lastCall.op = "setget" /\ lastCall.ok) => lastCall.result = AsIs(lastCall.value)

HistoryIds(history) == {history[i].id : i \in 1..Len(history)}

OneEntryPerChannel(history) ==
  \A i, j \in 1..Len(history) : history[i].id = history[j].id => i = j

\* run k of the load writes its entry, after a later run has been started
EarlierOpenWrites(k) ==
  /\ k < Len(opens)
  /\ ReadFavorites /\ opens[k].pc = "getFavorites" /\ opens'[k].pc = "setHistory"

\* the entry of the channel opened last is the first of the stored history
LastOpenedFirst ==
  watchHistory # <<>> /\ Head(watchHistory).id = opens[Len(opens)].url

\* C40: the stored watch history has at most 100 entries and one entry per
\* channel id; no write of an open or of an enrichment drops the entry of
\* another channel while the limit is not reached, and none moves the
\* channel opened last from the first place
C40_WatchHistoryKeepsEveryOpen ==
  /\ [](Len(watchHistory) <= HistoryLimit /\ OneEntryPerChannel(watchHistory))
  /\ [][Len(watchHistory) < HistoryLimit =>
          HistoryIds(watchHistory) \subseteq HistoryIds(watchHistory')]_vars
  /\ [][\A k \in 1..Len(opens) :
          (EarlierOpenWrites(k) /\ LastOpenedFirst) => LastOpenedFirst']_vars

====
